---- MODULE Spec2Model ----
(***************************************************************************)
(* EZchain: the transaction pool (MultiTxnsPool), the account value        *)
(* collection with its picker, and transaction signing, as state machines. *)
(*                                                                         *)
(* Python list positions are 0-based; the sequences below are 1-based, so  *)
(* a position i of the code is position i+1 here.                          *)
(***************************************************************************)
EXTENDS Integers, Sequences, FiniteSets, TLC

(***************************************************************************)
(* Bounds                                                                  *)
(***************************************************************************)
\* number of pool calls (construction, add, remove) made in one run
\* by two concurrent clients
MaxCalls == 2
\* the same for a single client
MaxCallsOneClient == 4
\* number of times the wall clock advances in one run
MaxTicks == 1
\* the nodes an account's collection is given or makes by splitting
MaxNodes == 2
\* the largest amount asked of the picker
MaxAmount == 3
\* the largest change asked of a split
MaxChange == 2
\* the values of the transaction
MaxTxnValues == 2
\* number of pool and packager calls made in one run by two clients that
\* admit, package, finalize and remove
MaxCallsPack == 3
\* the largest max_multi_txns_per_block a packager is made with
MaxPerBlock == 2
MaxBegin == 2
MaxCount == 3
MaxLeaves == 3
\* the bits of a Bloom filter and the number of its hash functions
BloomSize == 5
BloomHashes == 2
\* the blocks of a chain, the genesis block included
MaxBlocks == 3

(***************************************************************************)
(* Program constants                                                       *)
(***************************************************************************)
\* max_age_hours of _cleanup_old_transactions
MaxAgeHours == 24

None == "None"
\* stands for an attribute the object does not have (reading it raises)
Missing == "Missing"

Threads == {"t1", "t2"}
\* local time minus UTC, in hours, as the host may be configured
TzOffsets == {0, 12}
\* the wall clock (hours, UTC) when the run starts, and its step
StartClock == 12 * 3
ClockStep == 12 * 1

(***************************************************************************)
(* Batches offered to the pool.  A signature is represented by the key     *)
(* that made it; it verifies under a public key iff the two are equal.     *)
(* created is the instant (hours, UTC) the batch object was constructed.   *)
(***************************************************************************)
Txn(s, sig) == [sender |-> s, signature |-> sig, isTransaction |-> TRUE]

MkBatch(d, s, sid, txns, sig, c) ==
    [digest |-> d, sender |-> s, sender_id |-> sid, multi_txns |-> txns,
     signature |-> sig, created |-> c, admitted |-> 0]

GoodBatches ==
    { MkBatch("d1", "A", "idA", <<Txn("A", "k1")>>, "k1", 0),
      MkBatch("d2", "A", "idA", <<Txn("A", "k1"), Txn("A", "k1")>>, "k1", 12),
      MkBatch("d3", "B", "idB", <<Txn("B", "k1")>>, "k1", 36) }

BadBatches ==
    { MkBatch("d1", "A", "idA", <<>>, "k1", 0),
      MkBatch("d2", "A", "idA", <<Txn("A", "k1"), Txn("B", "k1")>>, "k1", 12),
      MkBatch("d3", "B", "idB", <<Txn("B", "k1")>>, "k2", 36) }

\* a batch of sender A whose only child comes from sender B
MismatchedBatches ==
    { MkBatch("d3", "A", "idA", <<Txn("B", "k1")>>, "k1", 36) }

Batches == GoodBatches \cup BadBatches \cup MismatchedBatches
PublicKeys == {None, "k1"}
Digests == {"d1", "d2", "d3"}
NoBatch == MkBatch(None, "", "", <<>>, None, 0)

(***************************************************************************)
(* MultiTransactions: the digest field.  A SHA-256 value is represented by *)
(* a label; different inputs have different labels.  "d1", "d2" and "d3"   *)
(* are the labels of the canonical forms of the three GoodBatches.         *)
(***************************************************************************)
\* the dict that sig_acc_txn signs and check_acc_txn_sig verifies
multi_transaction_data(b) ==
    [sender |-> b.sender, timestamp |-> b.created,
     transactions |-> [i \in DOMAIN b.multi_txns |->
                          [sender |-> b.multi_txns[i].sender]],
     type |-> "multi_transaction"]

\* the hex text of a SHA-256 value other than the three above
sha256_hexdigest(data) == "sha256:" \o ToString(data)

\* hashlib.sha256(json.dumps(data, sort_keys=True, ...)).hexdigest()
transaction_hash(data) ==
    LET made == {g \in GoodBatches : multi_transaction_data(g) = data}
    IN  IF made # {} THEN (CHOOSE g \in made : TRUE).digest
        ELSE sha256_hexdigest(data)

\* pickle.dumps of sender, multi_txns, time, signature and digest
encode(b) == <<b.sender, b.multi_txns, b.created, b.signature, b.digest>>

\* self.digest = sha256_hash(self.encode())
set_digest(b) == [b EXCEPT !.digest = sha256_hexdigest(encode(b))]

\* signature and digest as the signature handler returns them
sig_acc_txn(b, load_private_key) ==
    [b EXCEPT !.signature = load_private_key,
              !.digest = transaction_hash(multi_transaction_data(b))]

\* the batches a wallet signed, and the same batches after set_digest
SignedBatches == {sig_acc_txn(g, "k1") : g \in GoodBatches}
RedigestedBatches == {set_digest(b) : b \in SignedBatches}
OfferedBatches == SignedBatches \cup RedigestedBatches

VARIABLES
    pool,          \* self.pool: the list of admitted batches
    sender_index,  \* self.sender_index: sender_id -> list of positions
    digest_index,  \* self.digest_index: digest -> position
    stats,         \* self.stats
    lock,          \* self.lock: its owner, or None
    db,            \* table multi_transactions: digest -> row
    pc,            \* where each client thread is
    loc,           \* the locals of each client thread
    now,           \* the wall clock, UTC
    tz,            \* local time minus UTC on this host
    calls,         \* number of pool calls started (history)
    stamp,         \* number of batches appended so far (history)
    shutdown,      \* the process has been asked to shut down
    index_map,     \* AccountValueCollection._index_map: node_id -> node.value
    chain,         \* the linked list from head to tail, as node ids
    state_index,   \* AccountValueCollection._state_index
    decimal_begin_map, \* AccountValueCollection._decimal_begin_map
    uuids,         \* number of node ids drawn so far
    ret,           \* what the last wallet call returned or raised
    tx,            \* a Transaction
    checked,       \* the last check_txn_sig: the key and the answer
    moved,         \* the state changes <<from, to>> of the last call (history)
    val,           \* a Value object on its own
    out,           \* the last call on val and what it returned or raised
    tree,          \* a MerkleTree
    prf,           \* MerkleTreeProof.mt_prf_list, and the leaf it was emitted for
    chk,           \* the last check_prf call and its answer
    bloom,         \* a BloomFilter
    inserted,      \* the items added to bloom (history)
    wire,          \* the JSON text last written from bloom, if any
    reply,         \* the last call on bloom and what it returned
    blocks,        \* the chain of Block objects, the genesis block first
    packages,      \* the PackagedBlockData each block was built from (history)
    changed,       \* the block and field assigned since the chain was built
    got            \* the list get_all_multi_transactions returned last

poolVars == <<pool, sender_index, digest_index, stats, lock, db, pc, loc,
              now, tz, calls, stamp, shutdown>>
collVars == <<index_map, chain, state_index, decimal_begin_map, uuids>>
unitVars == <<val, out, tree, prf, chk>>
bloomVars == <<bloom, inserted, wire, reply>>
chainVars == <<blocks, packages, changed>>
blockVars == <<bloomVars, chainVars, got>>
walletVars == <<collVars, ret, tx, checked, moved, unitVars, blockVars>>
vars == <<poolVars, walletVars>>

(***************************************************************************)
(* Time stamps.  Both renderings are fixed-width ISO strings, ordered as   *)
(* the instants they denote; they differ in the zone they are taken in.    *)
(***************************************************************************)
\* datetime.datetime.now().isoformat(): naive local time
IsoLocalNow(t) == t + tz
\* time.strftime(fmt, time.gmtime(t)): UTC
IsoGmtime(t) == t

BatchTime(b) == IsoLocalNow(b.created)

(***************************************************************************)
(* Pure helpers                                                            *)
(***************************************************************************)
Indices(s) == 1..Len(s)

RemoveAt(s, i) == [j \in 1..(Len(s) - 1) |-> IF j < i THEN s[j] ELSE s[j + 1]]

MaxOf(S) == CHOOSE x \in S : \A y \in S : y <= x

\* the positions of a set, in ascending order
RECURSIVE Ascending(_)
Ascending(S) ==
    IF S = {} THEN <<>>
    ELSE LET m == MaxOf(S) IN Append(Ascending(S \ {m}), m)

\* a dict as a function on its key set
EmptyDict == <<>>
DictSet(d, k, v) == [x \in (DOMAIN d) \cup {k} |-> IF x = k THEN v ELSE d[x]]
DictDel(d, k) == [x \in (DOMAIN d) \ {k} |-> d[x]]

\* _rebuild_indices: a later position overwrites an earlier one
RebuildDigestIndex(p) ==
    [d \in {p[i].digest : i \in Indices(p)} |->
        MaxOf({i \in Indices(p) : p[i].digest = d})]

RebuildSenderIndex(p) ==
    [s \in {p[i].sender_id : i \in Indices(p)} |->
        Ascending({i \in Indices(p) : p[i].sender_id = s})]

(***************************************************************************)
(* validate_multi_transactions                                             *)
(***************************************************************************)
Verifies(sig, pk) == sig = pk

FirstSender(b) == b.multi_txns[1].sender

\* the smallest member of a set of positions, or 0 when there is none
FirstOf(S) == IF S = {} THEN 0 ELSE CHOOSE i \in S : \A j \in S : i <= j

ValidationMessage(b, pk, dindex) ==
    LET BadChild(x) == ~x.isTransaction \/ x.sender # FirstSender(b)
        BadSig(x) == x.signature = None
                     \/ (pk # None /\ ~Verifies(x.signature, pk))
        i3 == FirstOf({i \in Indices(b.multi_txns) : BadChild(b.multi_txns[i])})
        i5 == FirstOf({i \in Indices(b.multi_txns) : BadSig(b.multi_txns[i])})
    IN  IF b.multi_txns = <<>> THEN "MultiTransactions cannot be empty"
        ELSE IF b.sender = "" THEN "Missing sender or sender_id"
        ELSE IF b.sender_id = Missing THEN "Validation error"
        ELSE IF b.sender_id = "" THEN "Missing sender or sender_id"
        ELSE IF i3 # 0 THEN
            IF ~b.multi_txns[i3].isTransaction
            THEN "Transaction is not a valid Transaction object"
            ELSE "Transaction has different sender"
        ELSE IF b.signature = None THEN "MultiTransactions signature is missing"
        ELSE IF b.digest = None THEN "MultiTransactions digest is missing"
        ELSE IF pk # None /\ ~Verifies(b.signature, pk)
            THEN "MultiTransactions signature verification failed"
        ELSE IF i5 # 0 THEN
            IF b.multi_txns[i5].signature = None
            THEN "Transaction signature is missing"
            ELSE "Transaction signature verification failed"
        ELSE IF b.digest \in DOMAIN dindex
            THEN "Duplicate MultiTransactions found"
        ELSE "ok"

(***************************************************************************)
(* Persistent store: table multi_transactions, keyed by its UNIQUE digest. *)
(* Only the columns the program reads back are kept.                       *)
(***************************************************************************)
Row(b) == [timestamp |-> BatchTime(b), processed |-> FALSE]

\* INSERT OR REPLACE: the row of the digest is replaced, processed defaults
InsertOrReplace(database, b) == DictSet(database, b.digest, Row(b))

\* the UPDATE had it no WHERE clause
MarkProcessedEveryRow(database, d) ==
    [x \in DOMAIN database |-> [database[x] EXCEPT !.processed = TRUE]]

\* UPDATE multi_transactions SET processed = TRUE WHERE digest = ?
MarkProcessed(database, d) ==
    IF d \in DOMAIN database
    THEN [database EXCEPT ![d].processed = TRUE]
    ELSE database

\* SELECT digest ... WHERE timestamp < ? AND processed = FALSE
OldDigests(database, c) ==
    {d \in DOMAIN database : /\ database[d].timestamp < c
                             /\ ~database[d].processed}

\* DELETE FROM multi_transactions WHERE timestamp < ? AND processed = FALSE
DeleteOld(database, c) ==
    [d \in (DOMAIN database) \ OldDigests(database, c) |-> database[d]]

(***************************************************************************)
(* In-memory list operations                                               *)
(***************************************************************************)
\* self.pool.append(multi_txn)
PoolAppend(p, e) == Append(p, e)

\* removal that fills the hole with the last entry
PoolDeleteSwap(p, i) ==
    [j \in 1..(Len(p) - 1) |-> IF j = i THEN p[Len(p)] ELSE p[j]]

\* del self.pool[index]
PoolDelete(p, i) == RemoveAt(p, i)

\* the loop of _cleanup_old_transactions over old_digests
RECURSIVE SweepMemory(_, _)
SweepMemory(m, S) ==
    IF S = {} THEN m
    ELSE LET d == CHOOSE x \in S : TRUE
             m2 == IF d \in DOMAIN m.digest_index
                   THEN LET p2 == PoolDelete(m.pool, m.digest_index[d])
                        IN  [pool |-> p2,
                             sender_index |-> RebuildSenderIndex(p2),
                             digest_index |-> RebuildDigestIndex(p2)]
                   ELSE m
         IN  SweepMemory(m2, S \ {d})

(***************************************************************************)
(* Client threads: add_multi_transactions                                  *)
(***************************************************************************)
Stats0 == [total_received |-> 0, valid_received |-> 0,
           invalid_received |-> 0, duplicates |-> 0]

Loc0 == [batch |-> NoBatch, msg |-> "", tmp |-> 0, ok |-> FALSE,
         sawDuplicate |-> FALSE, bumped |-> "", digest |-> None,
         max_multi_txns_per_block |-> 0, packaged_txns |-> <<>>,
         next |-> 1, removed_count |-> 0]

Goto(t, label) == pc' = [pc EXCEPT ![t] = label]

\* line 345: validation reads digest_index without the lock; the caller
\* offers one of the batches of offered
AddValidateOf(t, budget, offered) ==
    /\ pc[t] = "idle"
    /\ calls < budget
    /\ \E b \in offered, pk \in PublicKeys :
          /\ LET m == ValidationMessage(b, pk, digest_index)
             IN  loc' = [loc EXCEPT ![t] =
                    [Loc0 EXCEPT !.batch = IF m = "ok" THEN b ELSE NoBatch,
                                 !.msg = m,
                                 !.sawDuplicate =
                                     (m = "Duplicate MultiTransactions found")]]
    /\ calls' = calls + 1
    /\ Goto(t, "add_total")
    /\ UNCHANGED <<walletVars, shutdown>>
    /\ UNCHANGED <<pool, sender_index, digest_index, stats, lock, db,
                   now, tz, stamp>>

AddValidate(t, budget) == AddValidateOf(t, budget, Batches)

\* an in-place += on a dict entry is a load followed by a store
LoadStat(t, key, next) ==
    /\ loc' = [loc EXCEPT ![t].tmp = stats[key]]
    /\ Goto(t, next)
    /\ UNCHANGED <<walletVars, shutdown>>
    /\ UNCHANGED <<pool, sender_index, digest_index, stats, lock, db,
                   now, tz, calls, stamp>>

StoreStat(t, key) ==
    /\ stats' = [stats EXCEPT ![key] = loc[t].tmp + 1]
    /\ UNCHANGED <<walletVars, shutdown>>
    /\ UNCHANGED <<pool, sender_index, digest_index, lock, db,
                   now, tz, calls, stamp>>

Finish(t, success, message, counter) ==
    /\ loc' = [loc EXCEPT ![t].ok = success, ![t].msg = message,
                          ![t].bumped = counter, ![t].tmp = 0]
    /\ Goto(t, "done")

\* line 347
AddTotalLoad(t) ==
    /\ pc[t] = "add_total"
    /\ LoadStat(t, "total_received", "add_total_w")

AddTotalStore(t) ==
    /\ pc[t] = "add_total_w"
    /\ StoreStat(t, "total_received")
    /\ loc' = [loc EXCEPT ![t].tmp = 0]
    /\ Goto(t, IF loc[t].msg # "ok" THEN "add_invalid" ELSE "add_check")

\* lines 349-351
AddInvalidLoad(t) ==
    /\ pc[t] = "add_invalid"
    /\ LoadStat(t, "invalid_received", "add_invalid_w")

AddInvalidStore(t) ==
    /\ pc[t] = "add_invalid_w"
    /\ StoreStat(t, "invalid_received")
    /\ Finish(t, FALSE, loc[t].msg, "invalid_received")

\* line 354: the second look at digest_index, again without the lock
AddCheckDuplicate(t) ==
    /\ pc[t] = "add_check"
    /\ Goto(t, IF loc[t].batch.digest \in DOMAIN digest_index
               THEN "add_dup" ELSE "add_lock")
    /\ UNCHANGED <<walletVars, shutdown>>
    /\ UNCHANGED <<pool, sender_index, digest_index, stats, lock, db, loc,
                   now, tz, calls, stamp>>

\* lines 355-356
AddDuplicateLoad(t) ==
    /\ pc[t] = "add_dup"
    /\ LoadStat(t, "duplicates", "add_dup_w")

AddDuplicateStore(t) ==
    /\ pc[t] = "add_dup_w"
    /\ StoreStat(t, "duplicates")
    /\ Finish(t, FALSE, "Duplicate MultiTransactions", "duplicates")

\* line 359: with self.lock
AddAcquire(t) ==
    /\ pc[t] = "add_lock"
    /\ lock = None
    /\ lock' = t
    /\ Goto(t, "add_body")
    /\ UNCHANGED <<walletVars, shutdown>>
    /\ UNCHANGED <<pool, sender_index, digest_index, stats, db, loc,
                   now, tz, calls, stamp>>

\* lines 360-370: append, index update, _persist_to_database; the lock is
\* released on leaving the with block.  When the store fails (stored is
\* FALSE) the sqlite3.Error is caught and printed inside
\* _persist_to_database (lines 228-229) and nothing is committed.
AddAppend(t, stored) ==
    /\ pc[t] = "add_body"
    /\ lock = t
    /\ LET b == [loc[t].batch EXCEPT !.admitted = stamp + 1]
           p2 == PoolAppend(pool, b)
           index == Len(p2)
           old == IF b.sender_id \in DOMAIN sender_index
                  THEN sender_index[b.sender_id] ELSE <<>>
       IN  /\ pool' = p2
           /\ sender_index' = DictSet(sender_index, b.sender_id,
                                      Append(old, index))
           /\ digest_index' = DictSet(digest_index, b.digest, index)
    /\ db' = IF stored THEN InsertOrReplace(db, loc[t].batch) ELSE db
    /\ stamp' = stamp + 1
    /\ lock' = None
    /\ Goto(t, "add_valid")
    /\ UNCHANGED <<walletVars, shutdown>>
    /\ UNCHANGED <<stats, loc, now, tz, calls>>

\* lines 372-373
AddValidLoad(t) ==
    /\ pc[t] = "add_valid"
    /\ LoadStat(t, "valid_received", "add_valid_w")

AddValidStore(t) ==
    /\ pc[t] = "add_valid_w"
    /\ StoreStat(t, "valid_received")
    /\ Finish(t, TRUE, "MultiTransactions added successfully",
              "valid_received")

\* the caller takes the returned value
Return(t) ==
    /\ pc[t] = "done"
    /\ loc' = [loc EXCEPT ![t] = Loc0]
    /\ Goto(t, "idle")
    /\ UNCHANGED <<walletVars, shutdown>>
    /\ UNCHANGED <<pool, sender_index, digest_index, stats, lock, db,
                   now, tz, calls, stamp>>

(***************************************************************************)
(* Client threads: remove_multi_transactions                               *)
(***************************************************************************)
\* line 397: with self.lock
RemoveAcquire(t, budget) ==
    /\ pc[t] = "idle"
    /\ calls < budget
    /\ lock = None
    /\ lock' = t
    /\ \E d \in Digests : loc' = [loc EXCEPT ![t].digest = d]
    /\ calls' = calls + 1
    /\ Goto(t, "remove_body")
    /\ UNCHANGED <<walletVars, shutdown>>
    /\ UNCHANGED <<pool, sender_index, digest_index, stats, db,
                   now, tz, stamp>>

\* lines 398-431
RemoveBody(t) ==
    /\ pc[t] = "remove_body"
    /\ lock = t
    /\ LET d == loc[t].digest IN
       IF d \notin DOMAIN digest_index
       THEN /\ Finish(t, FALSE, "", "")
            /\ UNCHANGED <<pool, sender_index, digest_index, db>>
       ELSE LET p2 == PoolDelete(pool, digest_index[d]) IN
            /\ pool' = p2
            /\ sender_index' = RebuildSenderIndex(p2)
            /\ digest_index' = RebuildDigestIndex(p2)
            /\ db' = MarkProcessed(db, d)
            /\ Finish(t, TRUE, "", "")
    /\ lock' = None
    /\ UNCHANGED <<walletVars, shutdown>>
    /\ UNCHANGED <<stats, now, tz, calls, stamp>>

(***************************************************************************)
(* TransactionPackager (EZ_Transaction_Pool/PackTransactions.py).  Each    *)
(* client has a packager of its own; its locals are max_multi_txns_per_    *)
(* block, packaged_txns (the selected batches), next (the position of the  *)
(* loop of remove_packaged_transactions) and removed_count.                *)
(***************************************************************************)
Strategies == {"fifo", "fee", "other"}

Min(a, b) == IF a <= b THEN a ELSE b

\* s[:n] of Python
SliceTo(s, n) ==
    IF n >= 0 THEN SubSeq(s, 1, Min(n, Len(s)))
    ELSE SubSeq(s, 1, IF Len(s) + n > 0 THEN Len(s) + n ELSE 0)

\* x put into a list sorted by descending key, behind the entries of the
\* same key
RECURSIVE InsertByFee(_, _)
InsertByFee(sorted, x) ==
    IF sorted = <<>> THEN <<x>>
    ELSE IF Len(Head(sorted).multi_txns) >= Len(x.multi_txns)
         THEN <<Head(sorted)>> \o InsertByFee(Tail(sorted), x)
         ELSE <<x>> \o sorted

\* sorted(multi_txns, key=lambda x: len(x.multi_txns), reverse=True): stable
RECURSIVE SortedByFee(_)
SortedByFee(multi_txns) ==
    IF multi_txns = <<>> THEN <<>>
    ELSE InsertByFee(SortedByFee(SubSeq(multi_txns, 1, Len(multi_txns) - 1)),
                     multi_txns[Len(multi_txns)])

\* the selection had "fifo" sorted by fee as well
_select_transactions_fee(multi_txns, strategy) == SortedByFee(multi_txns)

_select_transactions(multi_txns, strategy) ==
    IF strategy = "fifo" THEN multi_txns
    ELSE IF strategy = "fee" THEN SortedByFee(multi_txns)
    ELSE multi_txns

\* selected_multi_txns of package_transactions, all_multi_txns being the
\* copy of the list that get_all_multi_transactions returned
package_transactions(all_multi_txns, selection_strategy, max) ==
    IF all_multi_txns = <<>> THEN <<>>
    ELSE SliceTo(_select_transactions(all_multi_txns, selection_strategy), max)

\* removed_count had it been bumped for every batch
CountRemovedAlways(removed_count, success) == removed_count + 1

\* lines 214-216: if success: removed_count += 1
CountRemoved(removed_count, success) ==
    IF success THEN removed_count + 1 ELSE removed_count

\* package_transactions: get_all_multi_transactions copies the list under
\* the lock (TransactionPool.py 447-450), the rest works on the copy
Package(t, budget, max, strategy) ==
    /\ pc[t] = "idle"
    /\ calls < budget
    /\ lock = None
    /\ loc' = [loc EXCEPT ![t] =
                 [Loc0 EXCEPT !.max_multi_txns_per_block = max,
                              !.packaged_txns =
                                  package_transactions(pool, strategy, max)]]
    /\ calls' = calls + 1
    /\ Goto(t, "packaged")
    /\ UNCHANGED <<walletVars, shutdown>>
    /\ UNCHANGED <<pool, sender_index, digest_index, stats, lock, db,
                   now, tz, stamp>>

\* remove_packaged_transactions, the head of its loop (lines 212-214): the
\* loop has ended, or the batch has no digest, or remove_multi_transactions
\* is entered and takes the lock
FinalizeNext(t) ==
    /\ pc[t] = "packaged"
    /\ IF loc[t].next > Len(loc[t].packaged_txns)
       THEN /\ Goto(t, "done")
            /\ UNCHANGED <<lock, loc>>
       ELSE IF loc[t].packaged_txns[loc[t].next].digest = None
       THEN /\ loc' = [loc EXCEPT ![t].next = @ + 1]
            /\ UNCHANGED <<lock, pc>>
       ELSE /\ lock = None
            /\ lock' = t
            /\ UNCHANGED loc
            /\ Goto(t, "finalize_body")
    /\ UNCHANGED <<walletVars, shutdown>>
    /\ UNCHANGED <<pool, sender_index, digest_index, stats, db,
                   now, tz, calls, stamp>>

\* remove_multi_transactions under the lock (TransactionPool.py 398-431)
\* and the count of its result (lines 215-216)
FinalizeBody(t) ==
    /\ pc[t] = "finalize_body"
    /\ lock = t
    /\ LET d == loc[t].packaged_txns[loc[t].next].digest
           success == d \in DOMAIN digest_index
       IN  /\ IF ~success
              THEN UNCHANGED <<pool, sender_index, digest_index, db>>
              ELSE LET p2 == PoolDelete(pool, digest_index[d]) IN
                   /\ pool' = p2
                   /\ sender_index' = RebuildSenderIndex(p2)
                   /\ digest_index' = RebuildDigestIndex(p2)
                   /\ db' = MarkProcessed(db, d)
           /\ loc' = [loc EXCEPT
                        ![t].removed_count = CountRemoved(@, success),
                        ![t].next = @ + 1]
    /\ lock' = None
    /\ Goto(t, "packaged")
    /\ UNCHANGED <<walletVars, shutdown>>
    /\ UNCHANGED <<stats, now, tz, calls, stamp>>

(***************************************************************************)
(* get_all_multi_transactions and what its caller holds.  A batch object   *)
(* is named by the number of its admission (the admitted field), which is  *)
(* the identity `is` compares; the list returned is a list of such names.  *)
(***************************************************************************)
\* self.pool.copy(): a new list of the same objects
get_all_multi_transactions(p) == [i \in Indices(p) |-> p[i].admitted]

\* lines 447-450, under the lock from beginning to end
GetAllMultiTransactions(t, budget) ==
    /\ pc[t] = "idle"
    /\ calls < budget
    /\ lock = None
    /\ got' = get_all_multi_transactions(pool)
    /\ calls' = calls + 1
    /\ UNCHANGED <<pool, sender_index, digest_index, stats, lock, db, pc, loc,
                   now, tz, stamp, shutdown>>
    /\ UNCHANGED <<collVars, ret, tx, checked, moved, unitVars, bloomVars,
                   chainVars>>

\* the caller assigns result[k].digest = value: the object the list names
\* is changed, wherever else it is held
MutateReturned(k, value) ==
    /\ k \in Indices(got)
    /\ lock = None
    /\ \E i \in Indices(pool) : pool[i].admitted = got[k] /\ pool[i].digest # value
    /\ pool' = [i \in Indices(pool) |->
                    IF pool[i].admitted = got[k]
                    THEN [pool[i] EXCEPT !.digest = value] ELSE pool[i]]
    /\ UNCHANGED <<sender_index, digest_index, stats, lock, db, pc, loc,
                   now, tz, calls, stamp, shutdown>>
    /\ UNCHANGED walletVars

(***************************************************************************)
(* The cleanup thread: cleanup_worker and _cleanup_old_transactions.       *)
(* The cutoff is taken from the clock (lines 130-131), then the whole      *)
(* sweep runs under the lock (lines 133-171).  Only this thread reads the  *)
(* clock, so a sweep whose cutoff was taken before a clock step equals a   *)
(* sweep that ran before that step: one atomic action covers both.         *)
(***************************************************************************)
CutoffIso == IsoGmtime(now - MaxAgeHours)

\* lines 133-171: what the sweep leaves in memory and in the store
CleanupResult ==
    LET m == SweepMemory([pool |-> pool, sender_index |-> sender_index,
                          digest_index |-> digest_index],
                         OldDigests(db, CutoffIso))
    IN  [pool |-> m.pool, sender_index |-> m.sender_index,
         digest_index |-> m.digest_index, db |-> DeleteOld(db, CutoffIso)]

CleanupOldTransactions ==
    /\ lock = None
    /\ pool' = CleanupResult.pool
    /\ sender_index' = CleanupResult.sender_index
    /\ digest_index' = CleanupResult.digest_index
    /\ db' = CleanupResult.db
    /\ UNCHANGED <<walletVars, shutdown>>
    /\ UNCHANGED <<stats, lock, pc, loc, now, tz, calls, stamp>>

(***************************************************************************)
(* Environment                                                             *)
(***************************************************************************)
Tick ==
    /\ now < StartClock + MaxTicks * ClockStep
    /\ now' = now + ClockStep
    /\ UNCHANGED <<walletVars, shutdown>>
    /\ UNCHANGED <<pool, sender_index, digest_index, stats, lock, db, pc,
                   loc, tz, calls, stamp>>

\* the process is asked to shut down.  Nothing of the pool reads the
\* request: cleanup_worker loops on "while True" (lines 117-120).
RaiseShutdown ==
    /\ ~shutdown
    /\ shutdown' = TRUE
    /\ UNCHANGED walletVars
    /\ UNCHANGED <<pool, sender_index, digest_index, stats, lock, db, pc,
                   loc, now, tz, calls, stamp>>

\* MultiTxnsPool.__init__ on the database file of an earlier pool: the
\* process was restarted, its threads are gone, the file is as it was left
MultiTxnsPool_init(budget) ==
    /\ calls < budget
    /\ \A t \in Threads : pc[t] = "idle"
    /\ pool' = <<>>
    /\ sender_index' = EmptyDict
    /\ digest_index' = EmptyDict
    /\ stats' = Stats0
    /\ lock' = None
    /\ pc' = [t \in Threads |-> "idle"]
    /\ loc' = [t \in Threads |-> Loc0]
    /\ calls' = calls + 1
    /\ shutdown' = FALSE
    /\ UNCHANGED walletVars
    /\ UNCHANGED <<db, now, tz, stamp>>

(***************************************************************************)
(* Values (EZ_Value/Value.py).  A hexadecimal string is represented by the *)
(* number it denotes and by whether it is spelled the way hex() spells it: *)
(* two strings are equal iff both agree.                                   *)
(***************************************************************************)
UNSPENT == "unspent"
SELECTED == "selected"
LOCAL_COMMITTED == "local_committed"
CONFIRMED == "confirmed"
ValueState == {UNSPENT, SELECTED, LOCAL_COMMITTED, CONFIRMED}

\* hex(n)
Hex(n) == [int |-> n, spelling |-> "hex"]
\* int(s, 16)
Int16(s) == s.int

get_end_index(begin_index, value_num) == Hex(Int16(begin_index) + value_num - 1)

Value(beginIndex, valueNum, state) ==
    [begin_index |-> beginIndex, value_num |-> valueNum, state |-> state,
     end_index |-> get_end_index(beginIndex, valueNum)]

\* V2 had it begun at the end of V1
Value_split_value_at_end(v, change) ==
    LET V1 == Value(v.begin_index, v.value_num - change, v.state)
    IN  <<V1, Value(V1.end_index, change, v.state)>>

\* V1 had it taken the change and V2 the rest
Value_split_value_swapped(v, change) ==
    LET V1 == Value(v.begin_index, change, v.state)
        tmpIndex == Hex(Int16(V1.end_index) + 1)
    IN  <<V1, Value(tmpIndex, v.value_num - change, v.state)>>

\* Value.split_value, for 0 < change < value_num: <<V1, V2>>, V2 the change
Value_split_value(v, change) ==
    LET V1 == Value(v.begin_index, v.value_num - change, v.state)
        tmpIndex == Hex(Int16(V1.end_index) + 1)
    IN  <<V1, Value(tmpIndex, change, v.state)>>

\* Value.set_state; anything but a ValueState raises TypeError
set_state(v, new_state) ==
    IF new_state \in ValueState THEN [v EXCEPT !.state = new_state] ELSE v

is_same_value(v, target) ==
    /\ target.begin_index = v.begin_index
    /\ target.end_index = v.end_index
    /\ target.value_num = v.value_num

to_dict(v) ==
    [begin_index |-> v.begin_index, end_index |-> v.end_index,
     value_num |-> v.value_num, state |-> v.state]

\* Value.get_intersect_value: <<>> stands for None, else the intersection
\* followed by the rest values.  Value(...) without a state is UNSPENT.
get_intersect_value(v, target) ==
    LET decimal_begin == Int16(v.begin_index)
        decimal_end == Int16(v.end_index)
        intersect_begin == MaxOf({Int16(target.begin_index), decimal_begin})
        intersect_end == Min(Int16(target.end_index), decimal_end)
        intersect_value == Value(Hex(intersect_begin),
                                 intersect_end - intersect_begin + 1, UNSPENT)
        before == IF decimal_begin < intersect_begin
                  THEN <<Value(Hex(decimal_begin),
                               intersect_begin - decimal_begin, UNSPENT)>>
                  ELSE <<>>
        after == IF intersect_end < decimal_end
                 THEN <<Value(Hex(intersect_end + 1),
                              decimal_end - intersect_end, UNSPENT)>>
                 ELSE <<>>
    IN  IF intersect_begin > intersect_end THEN <<>>
        ELSE <<intersect_value>> \o before \o after

\* the Value objects the calls on val are made with
ValueInputs ==
    {Value(Hex(b), n, state) : b \in 0..MaxBegin, n \in 1..MaxCount,
                               state \in ValueState}

NoCall == [op |-> "", change |-> 0, ends |-> "", values |-> <<>>]

\* val.split_value(change)
ValueSplitValue(change) ==
    /\ out' = IF change <= 0 \/ change >= val.value_num
              THEN [op |-> "split_value", change |-> change,
                    ends |-> "ValueError", values |-> <<>>]
              ELSE [op |-> "split_value", change |-> change,
                    ends |-> "returned", values |-> Value_split_value(val, change)]
    /\ UNCHANGED <<val, tree, prf, chk>>
    /\ UNCHANGED <<poolVars, collVars, ret, tx, checked, moved, blockVars>>

\* val.get_intersect_value(target)
ValueGetIntersectValue(target) ==
    /\ out' = [op |-> "get_intersect_value", change |-> 0,
               ends |-> IF get_intersect_value(val, target) = <<>>
                        THEN "None" ELSE "returned",
               values |-> get_intersect_value(val, target)]
    /\ UNCHANGED <<val, tree, prf, chk>>
    /\ UNCHANGED <<poolVars, collVars, ret, tx, checked, moved, blockVars>>

\* val.set_state(new_state)
ValueSetState(new_state) ==
    /\ val' = set_state(val, new_state)
    /\ out' = NoCall
    /\ UNCHANGED <<tree, prf, chk>>
    /\ UNCHANGED <<poolVars, collVars, ret, tx, checked, moved, blockVars>>

(***************************************************************************)
(* MerkleTree and MerkleTreeProof (EZ_Block_Units).  A string is a tuple:  *)
(* <<name>> is a payload, <<"sha256", x>> the hex digest of x and          *)
(* <<"+", x, y>> the concatenation x + y of two digests; SHA-256 is taken  *)
(* to have no collisions.  A node is named by the number of its            *)
(* construction, which is the identity the code compares nodes by; 0       *)
(* stands for None.  The path field of a node is left out.                 *)
(***************************************************************************)
sha256_hash(x) == <<"sha256", x>>
Concat(x, y) == <<"+", x, y>>

\* the payloads a tree is built over; the third is the string made of the
\* digests of the first two
Payloads ==
    { <<"data1">>, <<"data2">>,
      Concat(sha256_hash(<<"data1">>), sha256_hash(<<"data2">>)) }

RECURSIVE Lists(_, _)
Lists(S, n) ==
    IF n = 0 THEN {<<>>}
    ELSE Lists(S, n - 1) \cup
         {Append(l, x) : l \in {m \in Lists(S, n - 1) : Len(m) = n - 1}, x \in S}

MerkleTreeNode(left, right, value, content, leaf_index) ==
    [left |-> left, right |-> right, value |-> value, content |-> content,
     leaf_index |-> leaf_index, father |-> 0]

\* the odd element had it been paired with itself
DuplicateOdd(level) ==
    LET odd == Head(level.leaves)
        value == sha256_hash(Concat(level.nodes[odd].value, level.nodes[odd].value))
        new_mtree_node == Len(level.nodes) + 1
    IN  [nodes |-> [Append(level.nodes, MerkleTreeNode(odd, odd, value, <<>>, -1))
                       EXCEPT ![odd].father = new_mtree_node],
         leaves |-> Tail(level.leaves) \o <<new_mtree_node>>]

\* lines 74-75: leaves.append(leaves.pop(0))
CarryOdd(level) ==
    [nodes |-> level.nodes,
     leaves |-> Tail(level.leaves) \o <<Head(level.leaves)>>]

\* lines 55-73: n times, the two nodes at the front of the list are popped
\* and their father is appended
RECURSIVE PairUp(_, _, _)
PairUp(nodes, leaves, n) ==
    IF n = 0 THEN [nodes |-> nodes, leaves |-> leaves]
    ELSE LET left == leaves[1]
             right == leaves[2]
             value == sha256_hash(Concat(nodes[left].value, nodes[right].value))
             new_mtree_node == Len(nodes) + 1
         IN  PairUp([Append(nodes, MerkleTreeNode(left, right, value, <<>>, -1))
                        EXCEPT ![left].father = new_mtree_node,
                               ![right].father = new_mtree_node],
                    SubSeq(leaves, 3, Len(leaves)) \o <<new_mtree_node>>,
                    n - 1)

\* lines 53-77: while len(leaves) > 1
RECURSIVE BuildLevels(_, _)
BuildLevels(nodes, leaves) ==
    IF Len(leaves) <= 1 THEN [nodes |-> nodes, root |-> leaves[1]]
    ELSE LET length == Len(leaves)
             paired == PairUp(nodes, leaves, length \div 2)
             level == IF length % 2 = 1 THEN CarryOdd(paired) ELSE paired
         IN  BuildLevels(level.nodes, level.leaves)

\* the father's value had it been appended before the sibling's
add_unit_prf_list_father_first(nodes, now_node) ==
    LET father == nodes[now_node].father
        another_child == IF nodes[father].left = now_node
                         THEN nodes[father].right ELSE nodes[father].left
    IN  <<nodes[father].value, nodes[another_child].value>>

\* lines 83-93: what one step towards the root appends to a proof
add_unit_prf_list(nodes, now_node) ==
    LET father == nodes[now_node].father
        another_child == IF nodes[father].left = now_node
                         THEN nodes[father].right ELSE nodes[father].left
    IN  <<nodes[another_child].value, nodes[father].value>>

\* lines 97-100: while now_node != self.root
RECURSIVE ProofPath(_, _, _)
ProofPath(nodes, root, now_node) ==
    IF now_node = root THEN <<>>
    ELSE add_unit_prf_list(nodes, now_node)
         \o ProofPath(nodes, root, nodes[now_node].father)

\* MerkleTree(values, is_genesis_block): leaves are the nodes 1..Len(values);
\* prf_list <<>> stands for None; is_genesis_block is kept as history
build_tree(values, is_genesis_block) ==
    LET leaves == [i \in Indices(values) |->
                      MerkleTreeNode(0, 0, sha256_hash(values[i]), values[i], i - 1)]
        built == BuildLevels(leaves, [i \in Indices(values) |-> i])
    IN  IF values = <<>>
        THEN [leaves |-> 0, nodes |-> <<>>, root |-> 0, prf_list |-> <<>>,
              is_genesis_block |-> is_genesis_block]
        ELSE IF is_genesis_block
        THEN [leaves |-> Len(values), nodes |-> leaves, root |-> 1,
              prf_list |-> <<>>, is_genesis_block |-> TRUE]
        ELSE [leaves |-> Len(values), nodes |-> built.nodes, root |-> built.root,
              prf_list |-> [i \in Indices(values) |->
                              <<leaves[i].value>>
                              \o ProofPath(built.nodes, built.root, i)],
              is_genesis_block |-> FALSE]

get_root_hash(t) == t.nodes[t.root].value

\* the test of the loop had it accepted every pair
CombinesAlways(current_hash, sibling_hash, parent_hash) == TRUE

\* lines 45-51: the parent is the hash of the two in one of the two orders
Combines(current_hash, sibling_hash, parent_hash) ==
    \/ sha256_hash(Concat(current_hash, sibling_hash)) = parent_hash
    \/ sha256_hash(Concat(sibling_hash, current_hash)) = parent_hash

\* MerkleTreeProof.check_prf; the loop that breaks at the first pair that
\* does not combine is the conjunction over the pairs
check_prf(mt_prf_list, acc_txns_digest, true_root) ==
    LET hashed_encode_acc_txns == sha256_hash(acc_txns_digest)
        len == Len(mt_prf_list)
        current_hash(i) == IF i = 0 THEN hashed_encode_acc_txns
                           ELSE mt_prf_list[2 * i + 1]
    IN  IF len = 0 THEN FALSE
        ELSE IF len = 1
        THEN ~( \/ hashed_encode_acc_txns # mt_prf_list[1]
                \/ true_root # mt_prf_list[1]
                \/ true_root # hashed_encode_acc_txns )
        ELSE IF len % 2 # 1 THEN FALSE
        ELSE /\ hashed_encode_acc_txns = mt_prf_list[1]
             /\ mt_prf_list[len] = true_root
             /\ \A i \in 0..((len \div 2) - 1) :
                   Combines(current_hash(i), mt_prf_list[2 * i + 2],
                            mt_prf_list[2 * i + 3])

\* the hex digests a caller may come up with
Digests256(t) ==
    {t.nodes[k].value : k \in Indices(t.nodes)}
        \cup {sha256_hash(p) : p \in Payloads}

NoProof == [leaf |-> -1, mt_prf_list |-> <<>>, altered |-> FALSE]
NoCheck == [called |-> FALSE, acc_txns_digest |-> <<>>, true_root |-> <<>>,
            answer |-> FALSE]

\* MerkleTreeProof(tree.prf_list[leaf_index])
MerkleTreeProof_init(leaf_index) ==
    /\ tree.prf_list # <<>>
    /\ leaf_index \in 0..(tree.leaves - 1)
    /\ prf' = [leaf |-> leaf_index, mt_prf_list |-> tree.prf_list[leaf_index + 1],
               altered |-> FALSE]
    /\ chk' = NoCheck
    /\ UNCHANGED <<val, out, tree>>
    /\ UNCHANGED <<poolVars, collVars, ret, tx, checked, moved, blockVars>>

\* one element of the proof held is replaced by another digest
AlterElement(k, digest) ==
    /\ prf.leaf >= 0
    /\ ~prf.altered
    /\ k \in Indices(prf.mt_prf_list)
    /\ prf.mt_prf_list[k] # digest
    /\ prf' = [prf EXCEPT !.mt_prf_list[k] = digest, !.altered = TRUE]
    /\ chk' = NoCheck
    /\ UNCHANGED <<val, out, tree>>
    /\ UNCHANGED <<poolVars, collVars, ret, tx, checked, moved, blockVars>>

\* the proof held loses its last element
Truncate ==
    /\ prf.leaf >= 0
    /\ ~prf.altered
    /\ prf' = [prf EXCEPT
                 !.mt_prf_list = SubSeq(@, 1, Len(@) - 1), !.altered = TRUE]
    /\ chk' = NoCheck
    /\ UNCHANGED <<val, out, tree>>
    /\ UNCHANGED <<poolVars, collVars, ret, tx, checked, moved, blockVars>>

\* MerkleTreeProof(prf.mt_prf_list).check_prf(acc_txns_digest, true_root)
CheckPrf(acc_txns_digest, true_root) ==
    /\ prf.leaf >= 0
    /\ chk' = [called |-> TRUE, acc_txns_digest |-> acc_txns_digest,
               true_root |-> true_root,
               answer |-> check_prf(prf.mt_prf_list, acc_txns_digest, true_root)]
    /\ UNCHANGED <<val, out, tree, prf>>
    /\ UNCHANGED <<poolVars, collVars, ret, tx, checked, moved, blockVars>>

(***************************************************************************)
(* BloomFilter (EZ_Block_Units/Bloom.py).  bit_array is a sequence of bits *)
(* (position i of the code is place i + 1), bytes are sequences of         *)
(* integers 0..255.  A byte string is a record that tells a zlib stream    *)
(* from other bytes; a str is the record of the bytes base64 decodes it    *)
(* to.  zlib and base64 are taken to be lossless, as they are.             *)
(***************************************************************************)
\* mmh3.hash(item, seed), MurmurHash3 x86 32-bit, signed
mmh3_hash(item, seed) ==
    LET table == [A |-> <<1423767502, 1691979062, 116685281, 814537616>>,
                  B |-> <<-861508982, 1213381135, 2004012469, -382395377>>,
                  C |-> <<-367198581, -1453859867, -1989319571, 1499850556>>]
    IN  table[item][seed + 1]

Items == {"A", "B", "C"}

\* Python's int % int for a positive divisor
PyMod(a, b) == ((a % b) + b) % b

Zeros(n) == [i \in 1..n |-> 0]

\* bitarray.tobytes(): eight bits a byte, the first bit the highest, the
\* last byte padded with zeros
tobytes(bits) ==
    LET n == (Len(bits) + 7) \div 8
        Bit(i) == IF i <= Len(bits) THEN bits[i] ELSE 0
    IN  [j \in 1..n |->
            Bit(8 * j - 7) * 128 + Bit(8 * j - 6) * 64 + Bit(8 * j - 5) * 32
          + Bit(8 * j - 4) * 16 + Bit(8 * j - 3) * 8 + Bit(8 * j - 2) * 4
          + Bit(8 * j - 1) * 2 + Bit(8 * j)]

\* bitarray().frombytes(bit_bytes): eight bits for every byte
frombytes(bit_bytes) ==
    [i \in 1..(8 * Len(bit_bytes)) |->
        (bit_bytes[(i + 7) \div 8] \div (2 ^ (7 - ((i - 1) % 8)))) % 2]

RawBytes(data) == [kind |-> "bytes", data |-> data]
zlib_compress(bit_bytes) == [kind |-> "zlib", data |-> bit_bytes]
\* zlib.decompress raises zlib.error on what is not a zlib stream
zlib_is_error(compressed_data) == compressed_data.kind # "zlib"
zlib_decompress(compressed_data) == compressed_data.data
b64encode(data) == [kind |-> "str", data |-> data]
b64decode(s) == s.data
\* the str ""
EmptyStr == b64encode(RawBytes(<<>>))
\* None in the place of bit_array and of compressed_bit_array
NoBits == <<>>
NoStr == [kind |-> "None", data |-> RawBytes(<<>>)]

\* BloomFilter(size, hash_count, compressed)
BloomFilter(size, hash_count, compressed) ==
    [size |-> size, hash_count |-> hash_count, compressed |-> compressed,
     bit_array |-> IF compressed THEN NoBits ELSE Zeros(size),
     compressed_bit_array |-> IF compressed THEN EmptyStr ELSE NoStr]

compress(self) ==
    IF self.compressed \/ self.bit_array = NoBits THEN self
    ELSE [self EXCEPT
            !.compressed_bit_array =
                b64encode(zlib_compress(tobytes(self.bit_array))),
            !.bit_array = NoBits,
            !.compressed = TRUE]

\* the mutant of decompress: the bits come back shifted by one place
decompress_shifted(self) ==
    IF ~self.compressed \/ self.compressed_bit_array = NoStr THEN self
    ELSE LET compressed_data == b64decode(self.compressed_bit_array)
             bits == frombytes(zlib_decompress(compressed_data))
         IN  [self EXCEPT
                !.bit_array = IF zlib_is_error(compressed_data)
                              THEN Zeros(self.size)
                              ELSE <<0>> \o SubSeq(bits, 1, Len(bits) - 1),
                !.compressed_bit_array = NoStr,
                !.compressed = FALSE]

decompress(self) ==
    IF ~self.compressed \/ self.compressed_bit_array = NoStr THEN self
    ELSE LET compressed_data == b64decode(self.compressed_bit_array)
         IN  [self EXCEPT
                !.bit_array = IF zlib_is_error(compressed_data)
                              THEN Zeros(self.size)
                              ELSE frombytes(zlib_decompress(compressed_data)),
                !.compressed_bit_array = NoStr,
                !.compressed = FALSE]

_ensure_uncompressed(self) == IF self.compressed THEN decompress(self) ELSE self
_ensure_compressed(self) == IF ~self.compressed THEN compress(self) ELSE self

BitPositions(self, item) ==
    {PyMod(mmh3_hash(item, ii), self.size) : ii \in 0..(self.hash_count - 1)}

\* BloomFilter.add: the filter after the call
add(self, item) ==
    LET raw == _ensure_uncompressed(self)
    IN  [raw EXCEPT !.bit_array =
            [i \in 1..Len(raw.bit_array) |->
                IF (i - 1) \in BitPositions(raw, item) THEN 1
                ELSE raw.bit_array[i]]]

\* BloomFilter.__contains__: the filter after the call, and the answer
__contains__(self, item) ==
    LET raw == _ensure_uncompressed(self)
    IN  [self |-> raw,
         result |-> \A index \in BitPositions(raw, item) :
                        raw.bit_array[index + 1] # 0]

\* BloomFilter.get_compression_ratio: the filter after the call, and whether
\* the ratio is infinite (the compressed string is empty) or a quotient
get_compression_ratio(self) ==
    LET packed == _ensure_compressed(self)
    IN  [self |-> packed,
         result |-> IF packed.compressed_bit_array = EmptyStr THEN "inf"
                    ELSE "ratio"]

CountOnes(bits) == Cardinality({i \in 1..Len(bits) : bits[i] = 1})

\* BloomFilter.get_statistics
get_statistics(self) ==
    LET was_compressed == self.compressed
        raw == IF was_compressed THEN _ensure_uncompressed(self) ELSE self
        set_bits == CountOnes(raw.bit_array)
        ratio == get_compression_ratio(raw)
        restored == IF was_compressed THEN _ensure_compressed(ratio.self)
                    ELSE ratio.self
    IN  [self |-> restored,
         result |-> [total_bits |-> self.size, set_bits |-> set_bits,
                     unset_bits |-> self.size - set_bits,
                     compression_ratio |-> ratio.result,
                     compressed_storage |-> restored.compressed]]

\* BloomFilterEncoder.default: the filter after the call, and the dict
BloomFilterEncoder_default(obj) ==
    LET packed == _ensure_compressed(obj)
    IN  [self |-> packed,
         result |-> [size |-> packed.size, hash_count |-> packed.hash_count,
                     compressed_bit_array |-> packed.compressed_bit_array,
                     compressed |-> packed.compressed]]

\* bloom_decoder
bloom_decoder(dct) ==
    LET made == BloomFilter(dct.size, dct.hash_count, dct.compressed)
    IN  IF dct.compressed_bit_array # NoStr
        THEN [made EXCEPT !.compressed_bit_array = dct.compressed_bit_array,
                          !.compressed = TRUE,
                          !.bit_array = NoBits]
        ELSE made

\* what a call on the filter leaves in reply
NoReply == [op |-> "", was_compressed |-> FALSE, result |-> FALSE]
Replied(op, result) ==
    reply' = [op |-> op, was_compressed |-> bloom.compressed, result |-> result]
\* no JSON text has been written yet
NoWire == <<>>

\* BloomFilter(size, hash_count, compressed): a new filter is at hand
BloomInit(compressed) ==
    /\ bloom' = BloomFilter(BloomSize, BloomHashes, compressed)
    /\ inserted' = {}
    /\ Replied("__init__", TRUE)
    /\ UNCHANGED wire
    /\ UNCHANGED <<poolVars, collVars, ret, tx, checked, moved, unitVars,
                   chainVars, got>>

BloomAdd(item) ==
    /\ bloom' = add(bloom, item)
    /\ inserted' = inserted \cup {item}
    /\ Replied("add", TRUE)
    /\ UNCHANGED wire
    /\ UNCHANGED <<poolVars, collVars, ret, tx, checked, moved, unitVars,
                   chainVars, got>>

BloomContains(item) ==
    /\ bloom' = __contains__(bloom, item).self
    /\ Replied("__contains__", __contains__(bloom, item).result)
    /\ UNCHANGED <<inserted, wire>>
    /\ UNCHANGED <<poolVars, collVars, ret, tx, checked, moved, unitVars,
                   chainVars, got>>

BloomCompress ==
    /\ bloom' = compress(bloom)
    /\ Replied("compress", TRUE)
    /\ UNCHANGED <<inserted, wire>>
    /\ UNCHANGED <<poolVars, collVars, ret, tx, checked, moved, unitVars,
                   chainVars, got>>

BloomDecompress ==
    /\ bloom' = decompress(bloom)
    /\ Replied("decompress", TRUE)
    /\ UNCHANGED <<inserted, wire>>
    /\ UNCHANGED <<poolVars, collVars, ret, tx, checked, moved, unitVars,
                   chainVars, got>>

BloomGetStatistics ==
    /\ bloom' = get_statistics(bloom).self
    /\ Replied("get_statistics", get_statistics(bloom).result)
    /\ UNCHANGED <<inserted, wire>>
    /\ UNCHANGED <<poolVars, collVars, ret, tx, checked, moved, unitVars,
                   chainVars, got>>

BloomGetCompressionRatio ==
    /\ bloom' = get_compression_ratio(bloom).self
    /\ Replied("get_compression_ratio", get_compression_ratio(bloom).result)
    /\ UNCHANGED <<inserted, wire>>
    /\ UNCHANGED <<poolVars, collVars, ret, tx, checked, moved, unitVars,
                   chainVars, got>>

\* json.dumps(bloom, cls=BloomFilterEncoder); the text is kept with the
\* items the filter held when it was written
BloomDumps ==
    /\ bloom' = BloomFilterEncoder_default(bloom).self
    /\ wire' = <<[dct |-> BloomFilterEncoder_default(bloom).result,
                  inserted |-> inserted]>>
    /\ Replied("dumps", TRUE)
    /\ UNCHANGED inserted
    /\ UNCHANGED <<poolVars, collVars, ret, tx, checked, moved, unitVars,
                   chainVars, got>>

\* json.loads(text, object_hook=bloom_decoder): the filter read back takes
\* the place of the one at hand
BloomLoads ==
    /\ wire # NoWire
    /\ bloom' = bloom_decoder(wire[1].dct)
    /\ inserted' = wire[1].inserted
    /\ Replied("loads", TRUE)
    /\ UNCHANGED wire
    /\ UNCHANGED <<poolVars, collVars, ret, tx, checked, moved, unitVars,
                   chainVars, got>>

(***************************************************************************)
(* Block (EZ_Main_Chain/Block.py) and the block a packager builds          *)
(* (EZ_Transaction_Pool/PackTransactions.py).  A text is a tuple of its    *)
(* parts, the str "" is <<>>.  The sig field is not in block_to_str and is *)
(* left out.  The filter of a block has BloomSize bits and BloomHashes     *)
(* hash functions in place of the defaults 1024 * 1024 and 5.              *)
(***************************************************************************)
\* str(self.bloom): BloomFilter inherits set's repr and never puts anything
\* in the set it inherits from, so the text is that of an empty set
BloomFilter_str(self) == <<"BloomFilter()">>

\* Block(index, m_tree_root, miner, pre_hash, nonce, time=time)
Block(index, m_tree_root, miner, pre_hash, nonce, time) ==
    [index |-> index, nonce |-> nonce,
     bloom |-> BloomFilter(BloomSize, BloomHashes, FALSE),
     m_tree_root |-> m_tree_root, time |-> time, miner |-> miner,
     pre_hash |-> pre_hash]

block_to_str(self) ==
    <<"Index", self.index, "Nonce", self.nonce,
      "Bloom", BloomFilter_str(self.bloom),
      "Merkle Tree Root", self.m_tree_root, "Time", self.time,
      "Miner", self.miner, "Previous Hash", self.pre_hash>>

get_hash(self) == sha256_hash(block_to_str(self))

is_valid_next_block_dst(self, block) ==
    IF self.index + 1 = block.index
    THEN IF get_hash(self) = block.pre_hash THEN TRUE ELSE FALSE
    ELSE FALSE

add_item_to_bloom(self, item) == [self EXCEPT !.bloom = add(@, item)]

is_in_bloom(self, item) == __contains__(self.bloom, item).result

\* the senders had only the first batch been looked at
_extract_sender_addresses_first(multi_txns) ==
    {multi_txns[i].sender : i \in {i \in Indices(multi_txns) :
                                     i = 1 /\ multi_txns[i].sender # ""}}

\* _extract_sender_addresses: list(senders) of a set, its order is not used
_extract_sender_addresses(multi_txns) ==
    {multi_txns[i].sender : i \in {i \in Indices(multi_txns) :
                                     multi_txns[i].sender # ""}}

\* _build_merkle_tree: the root over the digests of the batches
_build_merkle_tree(multi_txns) ==
    IF multi_txns = <<>> THEN <<>>
    ELSE get_root_hash(build_tree(
            [i \in Indices(multi_txns) |->
                IF multi_txns[i].digest # None THEN <<multi_txns[i].digest>>
                ELSE sha256_hash(<<"encode", multi_txns[i].sender>>)],
            FALSE))

\* the PackagedBlockData package_transactions returns
PackagedBlockData(all_multi_txns, selection_strategy, max, time) ==
    LET selected_multi_txns ==
            package_transactions(all_multi_txns, selection_strategy, max)
    IN  [selected_multi_txns |-> selected_multi_txns,
         merkle_root |-> _build_merkle_tree(selected_multi_txns),
         sender_addresses |-> _extract_sender_addresses(selected_multi_txns),
         package_time |-> time]

\* for sender in package_data.sender_addresses: block.add_item_to_bloom(sender)
RECURSIVE AddSenders(_, _)
AddSenders(block, sender_addresses) ==
    IF sender_addresses = {} THEN block
    ELSE LET sender == CHOOSE s \in sender_addresses : TRUE
         IN  AddSenders(add_item_to_bloom(block, sender),
                        sender_addresses \ {sender})

create_block_from_package(package_data, miner, pre_hash, index) ==
    AddSenders(Block(index, package_data.merkle_root, miner, pre_hash, 0,
                     package_data.package_time),
               package_data.sender_addresses)

\* the batches a pool can hold: they pass validation
Admissible ==
    {b \in Batches : ValidationMessage(b, None, EmptyDict) = "ok"}
\* what get_all_multi_transactions can return: batches of distinct digests
PoolLists ==
    {<<>>} \cup {<<b>> : b \in Admissible}
           \cup {s \in [1..2 -> Admissible] : s[1].digest # s[2].digest}
Miners == {"m1", "m2"}
GenesisBlock == Block(0, <<>>, "m1", <<"0">>, 0, StartClock)
\* no field of a block has been changed since the chain was built
NoChange == [at |-> 0, field |-> ""]
\* the values a field of a block can be set to
FieldValues(field) ==
    IF field = "index" THEN 0..MaxBlocks
    ELSE IF field = "nonce" THEN {0, 1}
    ELSE IF field = "m_tree_root" THEN {<<>>, sha256_hash(<<"d1">>)}
    ELSE IF field = "time" THEN {StartClock, StartClock + ClockStep}
    ELSE IF field = "miner" THEN Miners
    ELSE {<<"0">>, get_hash(GenesisBlock)}
HeaderFields == {"index", "nonce", "m_tree_root", "time", "miner", "pre_hash"}

\* package_transactions_from_pool (lines 266-278) with the pool holding
\* all_multi_txns, the block being put on the chain
PackageAndCreateBlock(all_multi_txns, selection_strategy, max, miner_address) ==
    /\ Len(blocks) < MaxBlocks
    /\ changed = NoChange
    /\ LET package_data == PackagedBlockData(all_multi_txns,
                               selection_strategy, max, now)
           parent == blocks[Len(blocks)]
       IN  /\ blocks' = Append(blocks,
                  create_block_from_package(package_data, miner_address,
                                            get_hash(parent), parent.index + 1))
           /\ packages' = Append(packages, package_data)
    /\ UNCHANGED changed
    /\ UNCHANGED <<poolVars, collVars, ret, tx, checked, moved, unitVars,
                   bloomVars, got>>

\* an attribute of block i is assigned another value
SetField(i, field, value) ==
    /\ i \in Indices(blocks)
    /\ changed = NoChange
    /\ blocks[i][field] # value
    /\ blocks' = [blocks EXCEPT ![i][field] = value]
    /\ changed' = [at |-> i, field |-> field]
    /\ UNCHANGED packages
    /\ UNCHANGED <<poolVars, collVars, ret, tx, checked, moved, unitVars,
                   bloomVars, got>>

\* block i is given another item: Block.add_item_to_bloom
AddItemToBloom(i, item) ==
    /\ i \in Indices(blocks)
    /\ changed = NoChange
    /\ add_item_to_bloom(blocks[i], item) # blocks[i]
    /\ blocks' = [blocks EXCEPT ![i] = add_item_to_bloom(@, item)]
    /\ changed' = [at |-> i, field |-> "bloom"]
    /\ UNCHANGED packages
    /\ UNCHANGED <<poolVars, collVars, ret, tx, checked, moved, unitVars,
                   bloomVars, got>>

(***************************************************************************)
(* AccountValueCollection, as operators on the record of its fields.  A    *)
(* node id is the number of the uuid4 draw that made it, so _index_map, a  *)
(* dict, is iterated in ascending id order.                                *)
(***************************************************************************)
Coll ==
    [index_map |-> index_map, chain |-> chain, state_index |-> state_index,
     decimal_begin_map |-> decimal_begin_map, uuids |-> uuids]

EmptyColl ==
    [index_map |-> EmptyDict, chain |-> <<>>,
     state_index |-> [s \in ValueState |-> {}],
     decimal_begin_map |-> EmptyDict, uuids |-> 0]

add_value(c, value, position) ==
    LET node_id == c.uuids + 1
    IN  [index_map |-> DictSet(c.index_map, node_id, value),
         chain |-> IF position = "end" THEN Append(c.chain, node_id)
                   ELSE <<node_id>> \o c.chain,
         state_index |-> [c.state_index EXCEPT ![value.state] = @ \cup {node_id}],
         decimal_begin_map |->
             DictSet(c.decimal_begin_map, Int16(value.begin_index), node_id),
         uuids |-> node_id]

remove_value(c, node_id) ==
    IF node_id \notin DOMAIN c.index_map THEN c
    ELSE LET value == c.index_map[node_id]
             decimal_begin == Int16(value.begin_index)
             Others(x) == x # node_id
         IN  [index_map |-> DictDel(c.index_map, node_id),
              chain |-> SelectSeq(c.chain, Others),
              state_index |-> [c.state_index EXCEPT ![value.state] = @ \ {node_id}],
              decimal_begin_map |->
                  IF /\ decimal_begin \in DOMAIN c.decimal_begin_map
                     /\ c.decimal_begin_map[decimal_begin] = node_id
                  THEN DictDel(c.decimal_begin_map, decimal_begin)
                  ELSE c.decimal_begin_map,
              uuids |-> c.uuids]

\* the list with new put right after old
InsertAfter(s, old, new) ==
    LET i == CHOOSE k \in Indices(s) : s[k] = old
    IN  SubSeq(s, 1, i) \o <<new>> \o SubSeq(s, i + 1, Len(s))

\* AccountValueCollection.split_value; c itself when it returns None, None
split_value(c, node_id, change) ==
    IF node_id \notin DOMAIN c.index_map THEN c
    ELSE IF change <= 0 \/ change >= c.index_map[node_id].value_num THEN c
    ELSE LET v == Value_split_value(c.index_map[node_id], change)
             new_node == c.uuids + 1
         IN  [index_map |-> DictSet(DictSet(c.index_map, node_id, v[1]),
                                    new_node, v[2]),
              chain |-> InsertAfter(c.chain, node_id, new_node),
              state_index |-> [c.state_index EXCEPT ![v[2].state] = @ \cup {new_node}],
              decimal_begin_map |->
                  DictSet(c.decimal_begin_map, Int16(v[2].begin_index), new_node),
              uuids |-> new_node]

\* the lifecycle of the specification, as pairs <<from, to>>
LifecycleEdges ==
    {<<UNSPENT, SELECTED>>, <<SELECTED, LOCAL_COMMITTED>>,
     <<LOCAL_COMMITTED, CONFIRMED>>, <<SELECTED, UNSPENT>>}

\* update_value_state had it refused what is not an edge of the lifecycle
update_value_state_lifecycle(c, node_id, new_state) ==
    IF node_id \notin DOMAIN c.index_map THEN c
    ELSE LET old_state == c.index_map[node_id].state
         IN  IF <<old_state, new_state>> \notin LifecycleEdges THEN c
             ELSE [c EXCEPT
                     !.state_index = [@ EXCEPT ![old_state] = @ \ {node_id},
                                               ![new_state] = @ \cup {node_id}],
                     !.index_map[node_id] = set_state(@, new_state)]

update_value_state(c, node_id, new_state) ==
    IF node_id \notin DOMAIN c.index_map THEN c
    ELSE LET old_state == c.index_map[node_id].state
         IN  IF old_state = new_state THEN c
             ELSE [c EXCEPT
                     !.state_index = [@ EXCEPT ![old_state] = @ \ {node_id},
                                               ![new_state] = @ \cup {node_id}],
                     !.index_map[node_id] = set_state(@, new_state)]

\* AccountValueCollection.merge_adjacent_values; c itself when it returns
\* None.  node1.next != node2 is a test on the linked list.
merge_adjacent_values(c, node_id1, node_id2) ==
    IF node_id1 \notin DOMAIN c.index_map \/ node_id2 \notin DOMAIN c.index_map
    THEN c
    ELSE LET node1 == c.index_map[node_id1]
             node2 == c.index_map[node_id2]
             next == \E i \in 1..(Len(c.chain) - 1) :
                        c.chain[i] = node_id1 /\ c.chain[i + 1] = node_id2
             merged_value == Value(node1.begin_index,
                                   node1.value_num + node2.value_num, node1.state)
         IN  IF ~next \/ node1.state # node2.state THEN c
             ELSE remove_value([c EXCEPT !.index_map[node_id1] = merged_value],
                               node_id2)

get_all_values(c) == [i \in Indices(c.chain) |-> c.index_map[c.chain[i]]]

\* Value.is_intersect_value
is_intersect_value(v, target) ==
    /\ Int16(v.end_index) >= Int16(target.begin_index)
    /\ Int16(target.end_index) >= Int16(v.begin_index)

RECURSIVE InsertByBegin(_, _)
InsertByBegin(sorted, x) ==
    IF sorted = <<>> THEN <<x>>
    ELSE IF Int16(Head(sorted).begin_index) <= Int16(x.begin_index)
         THEN <<Head(sorted)>> \o InsertByBegin(Tail(sorted), x)
         ELSE <<x>> \o sorted

\* sorted(values, key=lambda v: v.get_decimal_begin_index()): stable
RECURSIVE get_values_sorted_by_begin_index(_)
get_values_sorted_by_begin_index(values) ==
    IF values = <<>> THEN <<>>
    ELSE InsertByBegin(
             get_values_sorted_by_begin_index(SubSeq(values, 1, Len(values) - 1)),
             values[Len(values)])

validate_no_overlap(c) ==
    LET values == get_values_sorted_by_begin_index(get_all_values(c))
    IN  \A i \in 1..(Len(values) - 1) :
            ~(Int16(values[i].end_index) >= Int16(values[i + 1].begin_index))

(***************************************************************************)
(* AccountPickValues                                                       *)
(***************************************************************************)
\* the first node, in dict order, whose value has the range of target; 0
\* stands for None
_find_node_by_value(c, target_value) ==
    LET same == {n \in DOMAIN c.index_map :
                    is_same_value(c.index_map[n], target_value)}
    IN  IF same = {} THEN 0 ELSE CHOOSE n \in same : \A m \in same : n <= m

_update_value_state(c, value, new_state) ==
    LET node_id == _find_node_by_value(c, value)
    IN  IF node_id # 0 THEN update_value_state(c, node_id, new_state) ELSE c

\* for value in values: self._update_value_state(value, new_state)
RECURSIVE UpdateEach(_, _, _)
UpdateEach(c, values, new_state) ==
    IF values = <<>> THEN c
    ELSE UpdateEach(_update_value_state(c, Head(values), new_state),
                    Tail(values), new_state)

commit_transaction_values(c, selected_values) ==
    UpdateEach(c, selected_values, LOCAL_COMMITTED)

confirm_transaction_values(c, confirmed_values) ==
    UpdateEach(c, confirmed_values, CONFIRMED)

rollback_transaction_selection(c, selected_values) ==
    UpdateEach(c, selected_values, UNSPENT)

RECURSIVE TotalOf(_)
TotalOf(values) ==
    IF values = <<>> THEN 0 ELSE Head(values).value_num + TotalOf(Tail(values))

\* find_by_state: the values of the nodes of a state, in the order the set
\* of node ids of the state index is iterated (order is one of its orders)
find_by_state(c, order) == [i \in Indices(order) |-> c.index_map[order[i]]]

\* get_balance_by_state
get_balance_by_state(c, state) ==
    LET node_ids == Ascending(c.state_index[state])
    IN  TotalOf([i \in Indices(node_ids) |-> c.index_map[node_ids[i]]])

\* lines 40-45: values are taken in the order given until the amount is met
RECURSIVE GreedySelect(_, _, _)
GreedySelect(available_values, required_amount, total_selected) ==
    IF available_values = <<>> \/ total_selected >= required_amount THEN <<>>
    ELSE <<Head(available_values)>> \o
         GreedySelect(Tail(available_values), required_amount,
                      total_selected + Head(available_values).value_num)

\* the two ValueErrors of the picker, told apart by their messages
\* (line 30: the amount must be at least 1; line 49: insufficient balance)
AmountError == "ValueError: amount below 1"
BalanceError == "ValueError: insufficient balance"

\* had line 29 tested the amount against 0
InvalidAmountNegative(required_amount) == required_amount < 0

\* line 29
InvalidAmount(required_amount) == required_amount < 1

\* pick_values_for_transaction on the available values in the order the set
\* of the state index yields them: the collection it leaves and how it
\* ends, and the values it hands to its caller (none when it raises).
\* Transaction.__init__ takes no tx_hash, so building either transaction
\* (lines 78, 100) raises TypeError.
pick_values_for_transaction(c, required_amount, available_values) ==
    LET selected_values == GreedySelect(available_values, required_amount, 0)
        total_selected == TotalOf(selected_values)
        change_amount == total_selected - required_amount
        node_id == _find_node_by_value(c, selected_values[Len(selected_values)])
        c2 == split_value(c, node_id, change_amount)
        v1 == c2.index_map[node_id]
        v2 == c2.index_map[c2.uuids]
        marked == [i \in Indices(selected_values) |->
                     IF i = Len(selected_values) /\ c2 # c
                     THEN v1 ELSE selected_values[i]]
    IN  IF InvalidAmount(required_amount)
        THEN [coll |-> c, ends |-> AmountError, returns |-> <<>>]
        ELSE IF total_selected < required_amount
        THEN [coll |-> c, ends |-> BalanceError, returns |-> <<>>]
        ELSE IF change_amount > 0 /\ selected_values # <<>> THEN
            IF node_id # 0 /\ c2 # c
            THEN [coll |-> _update_value_state(c2, v2, SELECTED),
                  ends |-> "TypeError", returns |-> <<>>]
            ELSE [coll |-> UpdateEach(c, marked, SELECTED), ends |-> "returned",
                  returns |-> marked]
        ELSE [coll |-> c, ends |-> "TypeError", returns |-> <<>>]

(***************************************************************************)
(* Transaction (EZ_Transaction/SingleTransaction.py) and its signature.    *)
(* A signature is <<key, data>>: the key that made it and the data it was  *)
(* made over; <<>> stands for None.  A public key is named as its private  *)
(* key.                                                                    *)
(***************************************************************************)
Transaction(sender, recipient, nonce, signature, value, time) ==
    [sender |-> sender, recipient |-> recipient, nonce |-> nonce,
     signature |-> signature, value |-> value, time |-> time]

_serialize_values(t) == [i \in Indices(t.value) |-> to_dict(t.value[i])]

\* the dict built at lines 85-91 and 116-122, as its deterministic JSON
transaction_data(t) ==
    [sender |-> t.sender, recipient |-> t.recipient, nonce |-> t.nonce,
     timestamp |-> t.time, value |-> _serialize_values(t)]

sign_transaction(data, private_key) == <<private_key, data>>

verify_transaction_signature(data, signature, public_key) ==
    /\ signature[1] = public_key
    /\ signature[2] = data

sig_txn(t, load_private_key) ==
    [t EXCEPT !.signature =
        sign_transaction(transaction_data(t), load_private_key)]

check_txn_sig(t, load_public_key) ==
    IF t.signature = <<>> THEN FALSE
    ELSE verify_transaction_signature(transaction_data(t), t.signature, load_public_key)

(***************************************************************************)
(* CreateTransaction (EZ_Transaction/CreatSingleTransaction.py)            *)
(***************************************************************************)
\* the parameters of pick_values_for_transaction, none of which has a
\* default, and the keywords create_transaction passes to it
PickParameters ==
    {"required_amount", "sender", "recipient", "nonce", "tx_hash", "time"}
PickKeywords == {"required_amount", "sender", "recipient", "nonce", "time"}

\* commit_transaction_values changes the state of the very Value objects
\* the signed transaction holds in its value list
Committed(t) ==
    [t EXCEPT !.value = [i \in Indices(t.value) |->
                            set_state(t.value[i], LOCAL_COMMITTED)]]

\* create_transaction on the collection c: the collection it leaves, how it
\* ends and the transactions of its result.  A call that leaves a parameter
\* without a value raises TypeError before the callee runs.
create_transaction(c, recipient, amount, private_key_pem, available_values) ==
    LET picked == pick_values_for_transaction(c, amount, available_values)
        main_transaction ==
            sig_txn(Transaction("A", recipient, 1, <<>>, picked.returns, 0),
                    private_key_pem)
    IN  IF ~(PickParameters \subseteq PickKeywords)
        THEN [coll |-> c, ends |-> "TypeError",
              main_transaction |-> None, change_transaction |-> None]
        ELSE IF picked.ends # "returned"
        THEN [coll |-> picked.coll, ends |-> picked.ends,
              main_transaction |-> None, change_transaction |-> None]
        ELSE [coll |-> commit_transaction_values(picked.coll, picked.returns),
              ends |-> "returned",
              main_transaction |-> Committed(main_transaction),
              change_transaction |-> None]

(***************************************************************************)
(* Wallet calls                                                            *)
(***************************************************************************)
Keys == {"k1", "k2"}
Positions == {"end", "beginning"}
InputValues ==
    { Value(Hex(0), 2, UNSPENT), Value(Hex(2), 2, UNSPENT),
      Value(Hex(1), 3, UNSPENT) }
Unchecked == [key |-> None, answer |-> FALSE]

\* the state changes a call made to the nodes it left in the collection
Moves(c) ==
    {<<index_map[n].state, c.index_map[n].state>> :
        n \in {m \in DOMAIN index_map \cap DOMAIN c.index_map :
                 index_map[m].state # c.index_map[m].state}}

Install(c) ==
    /\ index_map' = c.index_map
    /\ chain' = c.chain
    /\ state_index' = c.state_index
    /\ decimal_begin_map' = c.decimal_begin_map
    /\ uuids' = c.uuids
    /\ moved' = Moves(c)

Bool(b) == IF b THEN "True" ELSE "False"

\* the values of a set of nodes, as a caller may hold them in a list
ValuesOf(ids) == [i \in Indices(Ascending(ids)) |-> index_map[Ascending(ids)[i]]]

\* the orders in which a set may be iterated
Orders(S) ==
    {s \in [1..Cardinality(S) -> S] : \A i, j \in 1..Cardinality(S) :
                                         s[i] = s[j] => i = j}

AddValue(value, position) ==
    /\ uuids < MaxNodes
    /\ Install(add_value(Coll, value, position))
    /\ ret' = "True"
    /\ UNCHANGED <<tx, checked>>
    /\ UNCHANGED <<poolVars, unitVars, blockVars>>

RemoveValue(node_id) ==
    /\ Install(remove_value(Coll, node_id))
    /\ ret' = Bool(node_id \in DOMAIN index_map)
    /\ UNCHANGED <<tx, checked>>
    /\ UNCHANGED <<poolVars, unitVars, blockVars>>

SplitValue(node_id, change) ==
    /\ uuids < MaxNodes
    /\ Install(split_value(Coll, node_id, change))
    /\ ret' = IF split_value(Coll, node_id, change) = Coll THEN "None"
              ELSE "Values"
    /\ UNCHANGED <<tx, checked>>
    /\ UNCHANGED <<poolVars, unitVars, blockVars>>

UpdateValueState(node_id, new_state) ==
    /\ Install(update_value_state(Coll, node_id, new_state))
    /\ ret' = Bool(node_id \in DOMAIN index_map)
    /\ UNCHANGED <<tx, checked>>
    /\ UNCHANGED <<poolVars, unitVars, blockVars>>

PickValuesForTransaction(required_amount) ==
    \E order \in Orders(state_index[UNSPENT]) :
        LET available == find_by_state(Coll, order)
            r == pick_values_for_transaction(Coll, required_amount, available)
        IN  /\ r.coll.uuids <= MaxNodes
            /\ Install(r.coll)
            /\ ret' = r.ends
            /\ UNCHANGED <<tx, checked>>
            /\ UNCHANGED <<poolVars, unitVars, blockVars>>

CommitTransactionValues(ids) ==
    /\ Install(commit_transaction_values(Coll, ValuesOf(ids)))
    /\ ret' = "True"
    /\ UNCHANGED <<tx, checked>>
    /\ UNCHANGED <<poolVars, unitVars, blockVars>>

ConfirmTransactionValues(ids) ==
    /\ Install(confirm_transaction_values(Coll, ValuesOf(ids)))
    /\ ret' = "True"
    /\ UNCHANGED <<tx, checked>>
    /\ UNCHANGED <<poolVars, unitVars, blockVars>>

RollbackTransactionSelection(ids) ==
    /\ Install(rollback_transaction_selection(Coll, ValuesOf(ids)))
    /\ ret' = "True"
    /\ UNCHANGED <<tx, checked>>
    /\ UNCHANGED <<poolVars, unitVars, blockVars>>

MergeAdjacentValues(node_id1, node_id2) ==
    /\ Install(merge_adjacent_values(Coll, node_id1, node_id2))
    /\ ret' = IF merge_adjacent_values(Coll, node_id1, node_id2) = Coll
              THEN "None" ELSE "Value"
    /\ UNCHANGED <<tx, checked>>
    /\ UNCHANGED <<poolVars, unitVars, blockVars>>

CreateTransactionCall(amount, private_key_pem) ==
    \E order \in Orders(state_index[UNSPENT]) :
        LET r == create_transaction(Coll, "B", amount, private_key_pem,
                                    find_by_state(Coll, order))
        IN  /\ r.coll.uuids <= MaxNodes
            /\ Install(r.coll)
            /\ ret' = r.ends
            /\ UNCHANGED <<tx, checked>>
            /\ UNCHANGED <<poolVars, unitVars, blockVars>>

\* tx.sig_txn(key)
SigTxn(key) ==
    /\ tx' = sig_txn(tx, key)
    /\ checked' = Unchecked
    /\ UNCHANGED <<collVars, ret, moved>>
    /\ UNCHANGED <<poolVars, unitVars, blockVars>>

\* tx.value[i].set_state(new_state)
TxnValueSetState(i, new_state) ==
    /\ i \in Indices(tx.value)
    /\ tx' = [tx EXCEPT !.value[i] = set_state(@, new_state)]
    /\ checked' = Unchecked
    /\ moved' = {<<tx.value[i].state, new_state>>} \
                    {<<new_state, new_state>>}
    /\ UNCHANGED <<collVars, ret>>
    /\ UNCHANGED <<poolVars, unitVars, blockVars>>

\* tx.check_txn_sig(key)
CheckTxnSig(key) ==
    /\ checked' = [key |-> key, answer |-> check_txn_sig(tx, key)]
    /\ UNCHANGED <<collVars, ret, tx, moved>>
    /\ UNCHANGED <<poolVars, unitVars, blockVars>>

(***************************************************************************)
(* Initial states and specifications                                       *)
(***************************************************************************)
InitWallet ==
    /\ index_map = EmptyColl.index_map
    /\ chain = EmptyColl.chain
    /\ state_index = EmptyColl.state_index
    /\ decimal_begin_map = EmptyColl.decimal_begin_map
    /\ uuids = EmptyColl.uuids
    /\ ret = "None"
    /\ moved = {}
    /\ tx = Transaction("A", "B", 1, <<>>,
                        [i \in 1..MaxTxnValues |->
                            Value(Hex(2 * (i - 1)), 2, UNSPENT)],
                        0)
    /\ checked = Unchecked

InitPoolVars ==
    /\ pool = <<>>
    /\ sender_index = EmptyDict
    /\ digest_index = EmptyDict
    /\ stats = Stats0
    /\ lock = None
    /\ db = EmptyDict
    /\ pc = [t \in Threads |-> "idle"]
    /\ loc = [t \in Threads |-> Loc0]
    /\ now = StartClock
    /\ calls = 0
    /\ stamp = 0
    /\ shutdown = FALSE

\* an empty filter, a chain of the genesis block, no list returned
InitBlocks ==
    /\ bloom = BloomFilter(BloomSize, BloomHashes, FALSE)
    /\ inserted = {}
    /\ wire = NoWire
    /\ reply = NoReply
    /\ blocks = <<GenesisBlock>>
    /\ packages = <<PackagedBlockData(<<>>, "fifo", 0, StartClock)>>
    /\ changed = NoChange
    /\ got = <<>>

\* no call has been made on a Value of its own or on a Merkle tree
InitUnits ==
    /\ val = Value(Hex(0), 1, UNSPENT)
    /\ out = NoCall
    /\ tree = build_tree(<<>>, FALSE)
    /\ prf = NoProof
    /\ chk = NoCheck
    /\ InitBlocks

InitPool ==
    /\ InitPoolVars
    /\ tz \in TzOffsets
    /\ InitWallet
    /\ InitUnits

\* every step of client t but the first one of a call
Continue(t) ==
    \/ AddTotalLoad(t)
    \/ AddTotalStore(t)
    \/ AddInvalidLoad(t)
    \/ AddInvalidStore(t)
    \/ AddCheckDuplicate(t)
    \/ AddAcquire(t)
    \/ AddAppend(t, TRUE)
    \/ AddAppend(t, FALSE)
    \/ AddValidLoad(t)
    \/ AddValidStore(t)
    \/ Return(t)
    \/ RemoveBody(t)

\* two clients and the cleanup thread
NextPool ==
    \/ \E t \in Threads : AddValidate(t, MaxCalls)
    \/ \E t \in Threads : RemoveAcquire(t, MaxCalls)
    \/ \E t \in Threads : Continue(t)
    \/ \E t \in Threads : AddDuplicateLoad(t)
    \/ \E t \in Threads : AddDuplicateStore(t)
    \/ CleanupOldTransactions
    \/ Tick
    \/ MultiTxnsPool_init(MaxCalls)

SpecPool == InitPool /\ [][NextPool]_vars

\* one client and the cleanup thread; lines 355-356 cannot be reached
NextOneClient ==
    \/ AddValidate("t1", MaxCallsOneClient)
    \/ RemoveAcquire("t1", MaxCallsOneClient)
    \/ Continue("t1")
    \/ CleanupOldTransactions
    \/ Tick
    \/ MultiTxnsPool_init(MaxCallsOneClient)

SpecOneClient == InitPool /\ [][NextOneClient]_vars

\* one client, the cleanup thread, and a request to shut down.  The
\* cleanup thread is a thread of its own, so the scheduler lets it run.
NextAging ==
    \/ NextOneClient
    \/ RaiseShutdown

SpecAging ==
    InitPool /\ [][NextAging]_vars /\ WF_vars(CleanupOldTransactions)

InitValue ==
    /\ InitPoolVars
    /\ tz = 0
    /\ InitWallet
    /\ InitUnits

\* one account's collection and its picker
NextValue ==
    \/ \E value \in InputValues, position \in Positions :
          AddValue(value, position)
    \/ \E node_id \in 1..MaxNodes : RemoveValue(node_id)
    \/ \E node_id \in 1..MaxNodes, change \in 0..MaxChange :
          SplitValue(node_id, change)
    \/ \E node_id \in 1..MaxNodes, new_state \in ValueState :
          UpdateValueState(node_id, new_state)
    \/ \E required_amount \in 0..MaxAmount :
          PickValuesForTransaction(required_amount)
    \/ \E ids \in SUBSET DOMAIN index_map : CommitTransactionValues(ids)
    \/ \E ids \in SUBSET DOMAIN index_map : ConfirmTransactionValues(ids)
    \/ \E ids \in SUBSET DOMAIN index_map : RollbackTransactionSelection(ids)
    \/ \E amount \in 0..MaxAmount, private_key_pem \in Keys :
          CreateTransactionCall(amount, private_key_pem)
    \/ \E node_id1, node_id2 \in 1..MaxNodes :
          MergeAdjacentValues(node_id1, node_id2)

SpecValue == InitValue /\ [][NextValue]_vars

\* one transaction: signing, state changes of its values, verification
NextTxn ==
    \/ \E key \in Keys : SigTxn(key)
    \/ \E i \in 1..MaxTxnValues, new_state \in ValueState :
          TxnValueSetState(i, new_state)
    \/ \E key \in Keys : CheckTxnSig(key)

SpecTxn == InitValue /\ [][NextTxn]_vars

\* one Value object: split, intersection, state change
InitValueUnit ==
    /\ InitPoolVars
    /\ tz = 0
    /\ InitWallet
    /\ val \in ValueInputs
    /\ out = NoCall
    /\ tree = build_tree(<<>>, FALSE)
    /\ prf = NoProof
    /\ chk = NoCheck
    /\ InitBlocks

NextValueUnit ==
    \/ \E change \in 0..(MaxCount + 1) : ValueSplitValue(change)
    \/ \E target \in ValueInputs : ValueGetIntersectValue(target)
    \/ \E new_state \in ValueState : ValueSetState(new_state)

SpecValueUnit == InitValueUnit /\ [][NextValueUnit]_vars

\* one Merkle tree over a list of payloads, and a proof taken from it
InitMerkle ==
    /\ InitPoolVars
    /\ tz = 0
    /\ InitWallet
    /\ val = Value(Hex(0), 1, UNSPENT)
    /\ out = NoCall
    /\ tree \in {build_tree(values, is_genesis_block) :
                    values \in Lists(Payloads, MaxLeaves),
                    is_genesis_block \in BOOLEAN}
    /\ prf = NoProof
    /\ chk = NoCheck
    /\ InitBlocks

NextMerkle ==
    \/ \E leaf_index \in 0..(MaxLeaves - 1) : MerkleTreeProof_init(leaf_index)
    \/ \E k \in 1..(2 * MaxLeaves), digest \in Digests256(tree) :
          AlterElement(k, digest)
    \/ Truncate
    \/ \E acc_txns_digest \in Payloads, true_root \in Digests256(tree) :
          CheckPrf(acc_txns_digest, true_root)

SpecMerkle == InitMerkle /\ [][NextMerkle]_vars

\* one Bloom filter and the calls made on it
NextBloom ==
    \/ \E compressed \in BOOLEAN : BloomInit(compressed)
    \/ \E item \in Items : BloomAdd(item)
    \/ \E item \in Items : BloomContains(item)
    \/ BloomCompress
    \/ BloomDecompress
    \/ BloomGetStatistics
    \/ BloomGetCompressionRatio
    \/ BloomDumps
    \/ BloomLoads

SpecBloom == InitValue /\ [][NextBloom]_vars

\* a chain built block by block from packages, and one change made to it
NextBlock ==
    \/ \E all_multi_txns \in PoolLists, selection_strategy \in Strategies,
          max \in 1..MaxPerBlock :
          PackageAndCreateBlock(all_multi_txns, selection_strategy, max, "m1")
    \/ \E i \in 1..MaxBlocks, field \in HeaderFields :
          \E value \in FieldValues(field) : SetField(i, field, value)
    \/ \E i \in 1..MaxBlocks, item \in Items : AddItemToBloom(i, item)

SpecBlock == InitValue /\ [][NextBlock]_vars

\* a batch that passes validation is admitted by client t
Admission(t) ==
    \/ AddValidate(t, MaxCallsPack) /\ loc'[t].msg = "ok"
    \/ AddTotalLoad(t)
    \/ AddTotalStore(t)
    \/ AddCheckDuplicate(t)
    \/ AddDuplicateLoad(t)
    \/ AddDuplicateStore(t)
    \/ AddAcquire(t)
    \/ AddAppend(t, TRUE)
    \/ AddValidLoad(t)
    \/ AddValidStore(t)

\* two clients that admit, package, finalize and remove, and the cleanup
\* thread
NextPack ==
    \/ \E t \in Threads : Admission(t)
    \/ \E t \in Threads, max \in 0..MaxPerBlock, strategy \in Strategies :
          Package(t, MaxCallsPack, max, strategy)
    \/ \E t \in Threads : FinalizeNext(t)
    \/ \E t \in Threads : FinalizeBody(t)
    \/ \E t \in Threads : RemoveAcquire(t, MaxCallsPack)
    \/ \E t \in Threads : RemoveBody(t)
    \/ \E t \in Threads : Return(t)
    \/ CleanupOldTransactions

SpecPack == InitValue /\ [][NextPack]_vars

\* one client that admits and removes batches, asks for all of them and
\* assigns to an attribute of one it was given
NextAll ==
    \/ AddValidate("t1", MaxCallsPack)
    \/ RemoveAcquire("t1", MaxCallsPack)
    \/ Continue("t1")
    \/ GetAllMultiTransactions("t1", MaxCallsPack)
    \/ \E k \in 1..MaxCallsPack, value \in Digests \cup {None} :
          MutateReturned(k, value)

SpecAll == InitValue /\ [][NextAll]_vars

\* one client that offers signed batches, some of them after set_digest
NextDigest ==
    \/ AddValidateOf("t1", MaxCallsPack, OfferedBatches)
    \/ RemoveAcquire("t1", MaxCallsPack)
    \/ Continue("t1")

SpecDigest == InitValue /\ [][NextDigest]_vars

(***************************************************************************)
(* Properties of the pool                                                  *)
(***************************************************************************)
PoolDigests(p) == {p[i].digest : i \in Indices(p)}

\* a client is inside add_multi_transactions or remove_multi_transactions
InsideOperation(t) == pc[t] \notin {"idle", "done"}

\* C1: in every reachable state, whatever the interleaving of admissions,
\* removals and sweeps, no two entries of the pool list have the same digest.
C1_DigestsUnique ==
    \A i, j \in Indices(pool) : pool[i].digest = pool[j].digest => i = j

\* C2: an admission of a batch, valid in itself, whose digest is already in
\* the pool is rejected, counted in duplicates and not in invalid_received,
\* and leaves the length of the list as it was.
C2_DuplicateCounted ==
    \A t \in Threads :
        (pc[t] = "done" /\ loc[t].sawDuplicate) =>
            /\ ~loc[t].ok
            /\ loc[t].bumped = "duplicates"

\* C6: when the persistence call of an admission fails, the list and both
\* indexes stay as they were and the caller is told of the failure.
C6_FailedPersistLeavesMemory ==
    [][\A t \in Threads :
          AddAppend(t, FALSE) =>
              UNCHANGED <<pool, sender_index, digest_index>>]_vars

\* C7: when a pool is constructed on a store left by an earlier pool, its
\* list and both indexes hold exactly the rows with processed = FALSE.
C7_StartupRehydrates ==
    [][MultiTxnsPool_init(MaxCallsOneClient) =>
          LET rows == {d \in DOMAIN db' : ~db'[d].processed}
          IN  /\ PoolDigests(pool') = rows
              /\ DOMAIN digest_index' = rows]_vars

\* C8: a client inside a pool operation holds the lock, so no two clients
\* are inside pool operations at the same time.
C8_OneThreadInside ==
    \A t, u \in Threads :
        (InsideOperation(t) /\ InsideOperation(u)) => t = u

\* the digests of the rows that are older than the horizon and unprocessed;
\* a row's timestamp was written as local time
AgedOut ==
    {d \in DOMAIN db : /\ ~db[d].processed
                        /\ db[d].timestamp - tz < now - MaxAgeHours}

\* C9: a sweep leaves neither in memory nor in the store an entry that was
\* older than the horizon with processed = FALSE, and keeps every other
\* entry of the list.
C9_SweepRemovesTheOld ==
    lock = None =>
        /\ \A d \in AgedOut :
              /\ d \notin DOMAIN CleanupResult.db
              /\ d \notin PoolDigests(CleanupResult.pool)
        /\ \A i \in Indices(pool) :
              pool[i].digest \notin AgedOut =>
                  \E j \in Indices(CleanupResult.pool) :
                      CleanupResult.pool[j] = pool[i]

\* C10: the entries of the list are in the order of their admission, after
\* any admissions, removals and sweeps.
C10_AdmissionOrder ==
    \A i, j \in Indices(pool) : i < j => pool[i].admitted < pool[j].admitted

\* three batches were admitted and the second was taken out
C10_Witness ==
    /\ Len(pool) = 2
    /\ pool[1].admitted + 1 < pool[2].admitted

(***************************************************************************)
(* Properties of values and transactions                                   *)
(***************************************************************************)
\* the node a hook looks up for the value of node n
FoundFor(n) == _find_node_by_value(Coll, index_map[n])

C4_ConfirmedIsTerminal ==
    [][\A n \in DOMAIN index_map \cap DOMAIN index_map' :
          index_map[n].state = CONFIRMED => index_map'[n].state = CONFIRMED]_vars

\* the steps Unspent -> Selected -> LocalCommitted -> Confirmed
ForwardEdges ==
    {<<UNSPENT, SELECTED>>, <<SELECTED, LOCAL_COMMITTED>>,
     <<LOCAL_COMMITTED, CONFIRMED>>}

\* C5: a signed transaction that verifies under the signer's key still
\* verifies under it after any of its values has moved one step along
\* Unspent -> Selected -> LocalCommitted -> Confirmed.
C5_SignatureSurvivesLifecycle ==
    [][\A i \in Indices(tx.value), new_state \in ValueState, key \in Keys :
          ( /\ TxnValueSetState(i, new_state)
            /\ <<tx.value[i].state, new_state>> \in ForwardEdges
            /\ check_txn_sig(tx, key) )
          => check_txn_sig(tx', key)]_vars

(***************************************************************************)
(* Properties of the aging task, the indexes and the packager              *)
(***************************************************************************)
\* C11: once the process has been asked to shut down, the aging task
\* starts no further sweep.
C11_NoSweepAfterShutdown ==
    [][shutdown => ~CleanupOldTransactions]_vars

\* the positions a sender's list holds
SenderPositions(sid) ==
    {sender_index[sid][k] : k \in Indices(sender_index[sid])}

\* C12: the digest index maps the digest of every entry of the list to the
\* position of that entry and holds no other digest, and the sender index
\* lists for each sender exactly the positions of that sender's entries.
C12_IndexesMatchList ==
    /\ \A i \in Indices(pool) :
          /\ pool[i].digest \in DOMAIN digest_index
          /\ digest_index[pool[i].digest] = i
          /\ pool[i].sender_id \in DOMAIN sender_index
    /\ DOMAIN digest_index = PoolDigests(pool)
    /\ \A sid \in DOMAIN sender_index :
          /\ SenderPositions(sid) =
                {i \in Indices(pool) : pool[i].sender_id = sid}
          /\ Len(sender_index[sid]) = Cardinality(SenderPositions(sid))

\* the list holds an entry of digest d
Present(p, d) == \E i \in Indices(p) : p[i].digest = d

C15_ChildrenOfTheSender ==
    \A i \in Indices(pool) :
        /\ pool[i].multi_txns # <<>>
        /\ \A k \in Indices(pool[i].multi_txns) :
              pool[i].multi_txns[k].sender = pool[i].sender

UnspentInListOrder ==
    LET Unspent(n) == n \in state_index[UNSPENT]
    IN  SelectSeq(chain, Unspent)

\* C17: whatever order the scan of the Unspent values takes, the picker
\* selects what it selects when it scans them in the order of the list, and
\* leaves the collection it leaves then: for one list and one required
\* amount there is one selection and one change value.
C17_ScanInListOrder ==
    \A required_amount \in 1..MaxAmount :
        \A order \in Orders(state_index[UNSPENT]) :
            LET scanned == find_by_state(Coll, order)
                listed == find_by_state(Coll, UnspentInListOrder)
            IN  /\ GreedySelect(scanned, required_amount, 0)
                      = GreedySelect(listed, required_amount, 0)
                /\ pick_values_for_transaction(Coll, required_amount, scanned).coll
                      = pick_values_for_transaction(Coll, required_amount, listed).coll

\* what a step takes out of the Unspent balance
UnspentTaken ==
    get_balance_by_state(Coll, UNSPENT) - get_balance_by_state(Coll', UNSPENT)

\* the nodes a step turns from Unspent to Selected, and what they hold after
TurnedSelected ==
    {n \in DOMAIN index_map \cap DOMAIN index_map' :
        /\ index_map[n].state = UNSPENT
        /\ index_map'[n].state = SELECTED}

TurnedSelectedTotal ==
    LET node_ids == Ascending(TurnedSelected)
    IN  TotalOf([i \in Indices(node_ids) |-> index_map'[node_ids[i]]])

\* C18: a pick of an amount the Unspent balance covers returns; the values
\* its scan accumulated sum to S >= required, it made a change value if and
\* only if S > required, the change value holds S - required, and the
\* values it selected hold exactly required.
C18_PickReturnsExactSums ==
    [][\A required_amount \in 1..MaxAmount :
          ( /\ PickValuesForTransaction(required_amount)
            /\ get_balance_by_state(Coll, UNSPENT) >= required_amount )
          => /\ ret' = "returned"
             /\ UnspentTaken >= required_amount
             /\ uuids' = uuids + 1 <=> UnspentTaken > required_amount
             /\ uuids' = uuids + 1 =>
                   index_map'[uuids'].value_num = UnspentTaken - required_amount
             /\ TurnedSelectedTotal = required_amount]_vars

\* C19: after a pick of an amount the Unspent balance covers, the values
\* selected (they hold the required amount) and the change value, if one
\* was made, are Selected, and every other value of the collection has the
\* state it had before.
C19_PickMarksSelected ==
    [][\A required_amount \in 1..MaxAmount :
          ( /\ PickValuesForTransaction(required_amount)
            /\ get_balance_by_state(Coll, UNSPENT) >= required_amount )
          => /\ TurnedSelectedTotal = required_amount
             /\ uuids' # uuids => index_map'[uuids'].state = SELECTED
             /\ \A n \in DOMAIN index_map \ TurnedSelected :
                   /\ n \in DOMAIN index_map'
                   /\ index_map'[n].state = index_map[n].state]_vars

\* C20: after a pick of an amount the Unspent balance covers and the
\* rollback of what that pick handed to its caller, every value the pick
\* took from the Unspent values, the change value included, is Unspent.
C20_RollbackRestoresUnspent ==
    \A required_amount \in 1..MaxAmount :
        \A order \in Orders(state_index[UNSPENT]) :
            get_balance_by_state(Coll, UNSPENT) >= required_amount =>
                LET picked == pick_values_for_transaction(
                                  Coll, required_amount, find_by_state(Coll, order))
                    after == rollback_transaction_selection(picked.coll,
                                                            picked.returns)
                IN  \A n \in DOMAIN after.index_map :
                        ( \/ n \notin DOMAIN index_map
                          \/ index_map[n].state = UNSPENT )
                        => after.index_map[n].state = UNSPENT

\* C21: a pick of an amount below 1 ends with the ValueError of the amount,
\* a pick of an amount of at least 1 that the Unspent balance does not
\* cover ends with the ValueError of the balance, and neither changes the
\* state of a value, splits a value or touches an index.
C21_FailedPickChangesNothing ==
    [][\A required_amount \in 0..MaxAmount :
          PickValuesForTransaction(required_amount) =>
              /\ required_amount < 1 =>
                    /\ ret' = AmountError
                    /\ UNCHANGED collVars
              /\ ( /\ required_amount >= 1
                   /\ get_balance_by_state(Coll, UNSPENT) < required_amount ) =>
                    /\ ret' = BalanceError
                    /\ UNCHANGED collVars]_vars

\* a pick has just failed for want of balance on a collection that holds
\* an Unspent value and a value in another state
C21_Witness ==
    /\ ret = BalanceError
    /\ state_index[UNSPENT] # {}
    /\ \E n \in DOMAIN index_map : index_map[n].state # UNSPENT

\* C22: create_transaction of an amount the Unspent balance covers returns,
\* and the main transaction and the change transaction of its result, if
\* it has one, verify under the public key of the private key it was
\* given.
C22_CreatedTransactionsVerify ==
    [][\A amount \in 1..MaxAmount, private_key_pem \in Keys :
          ( /\ CreateTransactionCall(amount, private_key_pem)
            /\ get_balance_by_state(Coll, UNSPENT) >= amount )
          => /\ ret' = "returned"
             /\ \A order \in Orders(state_index[UNSPENT]) :
                   LET r == create_transaction(Coll, "B", amount, private_key_pem,
                                               find_by_state(Coll, order))
                   IN  /\ r.main_transaction # None
                       /\ check_txn_sig(r.main_transaction, private_key_pem)
                       /\ r.change_transaction # None =>
                             check_txn_sig(r.change_transaction, private_key_pem)]_vars

(***************************************************************************)
(* Properties of the collection and of Value                               *)
(***************************************************************************)
\* the nodes of the linked list
ListNodes == {chain[i] : i \in Indices(chain)}

\* C23: the node-id index, the state index and the begin-address index
\* each enumerate exactly the nodes of the linked list, every node under
\* the state and under the begin address its value has.
C23_IndexesEnumerateTheList ==
    /\ \A i, j \in Indices(chain) : chain[i] = chain[j] => i = j
    /\ DOMAIN index_map = ListNodes
    /\ \A state \in ValueState :
          state_index[state] = {n \in ListNodes : index_map[n].state = state}
    /\ DOMAIN decimal_begin_map =
          {Int16(index_map[n].begin_index) : n \in ListNodes}
    /\ \A n \in ListNodes :
          decimal_begin_map[Int16(index_map[n].begin_index)] = n

AddressAdjacent(value1, value2) ==
    Int16(value1.end_index) + 1 = Int16(value2.begin_index)

\* C25: merge_adjacent_values returns a merged value only for two values
\* that are address-adjacent and in the same state; for two values of the
\* collection that are not address-adjacent it returns None and leaves the
\* list and the indexes as they were.
C25_MergeOnlyAddressAdjacent ==
    [][\A node_id1, node_id2 \in DOMAIN index_map :
          MergeAdjacentValues(node_id1, node_id2) =>
              /\ ret' = "Value" =>
                    /\ AddressAdjacent(index_map[node_id1], index_map[node_id2])
                    /\ index_map[node_id1].state = index_map[node_id2].state
              /\ ~AddressAdjacent(index_map[node_id1], index_map[node_id2]) =>
                    /\ ret' = "None"
                    /\ UNCHANGED collVars]_vars

\* the addresses of a value
Interval(v) == Int16(v.begin_index)..Int16(v.end_index)

\* C26: for 0 < change < value_num, split_value returns keep =
\* [begin, begin + value_num - change - 1] and change_value =
\* [keep.end + 1, end]; the two are disjoint, their union is the interval
\* of the value split, and both are in the state of the value split.
C26_SplitPartitions ==
    ( /\ out.op = "split_value"
      /\ 0 < out.change
      /\ out.change < val.value_num )
    => /\ out.ends = "returned"
       /\ Len(out.values) = 2
       /\ LET keep == out.values[1]
              change_value == out.values[2]
          IN  /\ Int16(keep.begin_index) = Int16(val.begin_index)
              /\ Int16(keep.end_index) =
                    Int16(val.begin_index) + val.value_num - out.change - 1
              /\ Int16(change_value.begin_index) = Int16(keep.end_index) + 1
              /\ Int16(change_value.end_index) = Int16(val.end_index)
              /\ keep.value_num = val.value_num - out.change
              /\ change_value.value_num = out.change
              /\ Interval(keep) \cap Interval(change_value) = {}
              /\ Interval(keep) \cup Interval(change_value) = Interval(val)
              /\ keep.state = val.state
              /\ change_value.state = val.state

\* a value of three addresses that is not Unspent has been split into a
\* part of two and a change of one
C26_Witness ==
    /\ out.op = "split_value"
    /\ out.ends = "returned"
    /\ val.state = LOCAL_COMMITTED
    /\ val.value_num = 3
    /\ out.change = 1

\* C27: when get_intersect_value returns an intersection, the intersection
\* and the rest values it returns are in the state of the value it was
\* called on.
C27_IntersectionKeepsState ==
    ( /\ out.op = "get_intersect_value"
      /\ out.ends = "returned" )
    => \A i \in Indices(out.values) : out.values[i].state = val.state

(***************************************************************************)
(* Properties of the Merkle tree and its proofs                            *)
(***************************************************************************)
\* the payload of the leaf the proof held was emitted for
EmittedFor == tree.nodes[prf.leaf + 1].content

\* C28: the proof the tree emitted for leaf i, as emitted, is accepted by
\* check_prf for the payload of leaf i and the root of the tree.
C28_EmittedProofAccepted ==
    ( /\ chk.called
      /\ ~prf.altered
      /\ chk.acc_txns_digest = EmittedFor
      /\ chk.true_root = get_root_hash(tree) )
    => chk.answer

\* the proof of the first leaf of three, five elements long, was accepted
C28_Witness ==
    /\ chk.called
    /\ chk.answer
    /\ ~prf.altered
    /\ tree.leaves = 3
    /\ prf.leaf = 0
    /\ Len(prf.mt_prf_list) = 5

RECURSIVE LeavesUnder(_, _)
LeavesUnder(nodes, n) ==
    IF nodes[n].left = 0 THEN <<n>>
    ELSE LeavesUnder(nodes, nodes[n].left) \o LeavesUnder(nodes, nodes[n].right)

\* there is a root, every leaf is under it exactly once, and n leaves have
\* n - 1 fathers: no leaf was duplicated
SingleRootOverAllLeaves ==
    /\ tree.root # 0
    /\ Len(LeavesUnder(tree.nodes, tree.root)) = tree.leaves
    /\ \A l \in 1..tree.leaves :
          \E i \in 1..tree.leaves : LeavesUnder(tree.nodes, tree.root)[i] = l
    /\ Len(tree.nodes) = 2 * tree.leaves - 1

\* C30 as stated: whatever the construction, a tree over a non-empty list
\* has a single root with every payload under it as exactly one leaf.
C30_EveryTreeCoversItsLeaves ==
    tree.leaves >= 1 => SingleRootOverAllLeaves

\* C30: a tree over a non-empty list that is not built as a genesis tree,
\* or is built over one payload, has a single root with every payload
\* under it as exactly one leaf, an odd element carried up and not
\* duplicated.
C30_LoopCoversItsLeaves ==
    ( /\ tree.leaves >= 1
      /\ ~tree.is_genesis_block \/ tree.leaves = 1 )
    => SingleRootOverAllLeaves

\* a tree of three leaves: the third, the odd one, hangs under the root
\* next to the father of the first two
C30_Witness ==
    /\ tree.leaves = 3
    /\ ~tree.is_genesis_block
    /\ tree.nodes[3].father = tree.root
    /\ tree.nodes[1].father = tree.nodes[2].father
    /\ tree.nodes[tree.root].left = tree.nodes[1].father
    /\ tree.nodes[tree.root].right = 3
    /\ prf.leaf = 2

(***************************************************************************)
(* Properties of the Bloom filter                                          *)
(***************************************************************************)
\* C31: every item added to the filter is reported as a member, whatever
\* calls of add, compress, decompress, the statistics and the JSON round
\* trip came after it
C31_NoFalseNegative ==
    \A item \in inserted : __contains__(bloom, item).result

\* a filter holding items has been written, read back and inflated: its
\* bits went through bytes and came back padded to whole bytes
C31_Witness ==
    /\ inserted # {}
    /\ wire # NoWire
    /\ reply.op = "decompress"
    /\ ~bloom.compressed
    /\ Len(bloom.bit_array) # bloom.size

\* C40: get_statistics and get_compression_ratio leave the storage mode as
\* it was: raw stays raw, compressed stays compressed
C40_QueriesKeepStorageMode ==
    [][(BloomGetStatistics \/ BloomGetCompressionRatio)
        => bloom'.compressed = bloom.compressed]_vars

Tampered(i) ==
    \/ changed.at = i /\ changed.field # ""
    \/ changed.at = i + 1 /\ changed.field \in {"index", "pre_hash"}

\* C33: is_valid_next_block_dst(parent, child) is true exactly when
\* child.index = parent.index + 1 and child.pre_hash = hash(parent); it is
\* true for every consecutive pair of a chain built by setting each
\* pre_hash to the hash of the parent, and false once a field of the
\* parent's header (index, nonce, Bloom filter, Merkle root, time, miner,
\* previous hash) or the child's index or pre_hash has been changed
C33_ValidNextDetectsChange ==
    /\ \A i, j \in Indices(blocks) :
          is_valid_next_block_dst(blocks[i], blocks[j])
            <=> /\ blocks[j].index = blocks[i].index + 1
                /\ blocks[j].pre_hash = get_hash(blocks[i])
    /\ \A i \in 1..(Len(blocks) - 1) :
          /\ changed = NoChange
                => is_valid_next_block_dst(blocks[i], blocks[i + 1])
          /\ Tampered(i)
                => ~is_valid_next_block_dst(blocks[i], blocks[i + 1])

\* the same, the Bloom filter of the parent left aside
C33_ExceptBloom ==
    \A i \in 1..(Len(blocks) - 1) :
          /\ changed = NoChange
                => is_valid_next_block_dst(blocks[i], blocks[i + 1])
          /\ Tampered(i) /\ ~(changed.at = i /\ changed.field = "bloom")
                => ~is_valid_next_block_dst(blocks[i], blocks[i + 1])

(***************************************************************************)
(* Properties of retrieval and of concurrent callers                       *)
(***************************************************************************)
\* C34: get_all_multi_transactions returns copies of the pooled batches:
\* no object of the returned list is an entry of the pool, so assigning to
\* an attribute of a returned batch leaves the pool as it was
C34_AllReturnsCopies ==
    [][/\ GetAllMultiTransactions("t1", MaxCallsPack)
            => \A k \in Indices(got'), i \in Indices(pool') :
                  got'[k] # pool'[i].admitted
       /\ (\E k \in 1..MaxCallsPack, value \in Digests \cup {None} :
              MutateReturned(k, value))
            => pool' = pool]_vars

\* no client is inside a pool operation
Quiescent == \A t \in Threads : ~InsideOperation(t)

\* C35: every admission call adds one to total_received and one to exactly
\* one of valid_received, invalid_received and duplicates, so whenever no
\* call is under way the counters add up, for concurrent callers as for
\* one caller at a time
C35_CountersAddUp ==
    Quiescent =>
        stats.total_received
            = stats.valid_received + stats.invalid_received + stats.duplicates

\* C36: when block assemblers package and finalize concurrently on one
\* pool, no batch is in the packages of two of them
C36_NoBatchPackagedTwice ==
    \A t, u \in Threads :
        t # u =>
            \A i \in Indices(loc[t].packaged_txns),
               j \in Indices(loc[u].packaged_txns) :
                loc[t].packaged_txns[i].admitted
                    # loc[u].packaged_txns[j].admitted

\* C37: after every completed pool operation (admission, removal, sweep)
\* the digests held in memory are the digests of the persisted rows with
\* processed = false
C37_MemoryMatchesStore ==
    Quiescent =>
        PoolDigests(pool) = {d \in DOMAIN db : ~db[d].processed}

\* C38: every batch in the pool carries the digest of its own canonical
\* form, and so two batches of the same content carry the same digest.
C38_DigestOfCanonicalForm ==
    /\ \A i \in Indices(pool) :
          pool[i].digest = transaction_hash(multi_transaction_data(pool[i]))
    /\ \A i, j \in Indices(pool) :
          multi_transaction_data(pool[i]) = multi_transaction_data(pool[j])
              => pool[i].digest = pool[j].digest

\* the second half alone: one content, one digest
C38_OneDigestPerContent ==
    \A i, j \in Indices(pool) :
        multi_transaction_data(pool[i]) = multi_transaction_data(pool[j])
            => pool[i].digest = pool[j].digest

\* what sig_acc_txn makes is what GoodBatches holds
C38_SignedAreGood == SignedBatches = GoodBatches

(***************************************************************************)
(* Properties of successive picks                                          *)
(***************************************************************************)
\* the addresses a value covers
AddressesOf(v) == Int16(v.begin_index)..Int16(v.end_index)

\* the values a pick has selected when it reaches line 110: those of the
\* scan, the last of them cut down to its first part when change was made
SelectedBy(c, required_amount, available_values) ==
    LET selected_values == GreedySelect(available_values, required_amount, 0)
        change_amount == TotalOf(selected_values) - required_amount
        after == pick_values_for_transaction(c, required_amount, available_values).coll
    IN  [i \in Indices(selected_values) |->
            IF i = Len(selected_values) /\ change_amount > 0
            THEN after.index_map[_find_node_by_value(c, selected_values[i])]
            ELSE selected_values[i]]

\* C39: of two picks made one after the other on an account, each of an
\* amount the Unspent balance covers, with no rollback in between, the
\* second selects no address that the first selected.
C39_NoAddressPickedTwice ==
    \A r1, r2 \in 1..MaxAmount :
        \A o1 \in Orders(state_index[UNSPENT]) :
            get_balance_by_state(Coll, UNSPENT) >= r1 =>
                LET first == pick_values_for_transaction(
                                 Coll, r1, find_by_state(Coll, o1))
                    sel1 == SelectedBy(Coll, r1, find_by_state(Coll, o1))
                IN  \A o2 \in Orders(first.coll.state_index[UNSPENT]) :
                        get_balance_by_state(first.coll, UNSPENT) >= r2 =>
                            LET sel2 == SelectedBy(first.coll, r2,
                                            find_by_state(first.coll, o2))
                            IN  \A i \in Indices(sel1), j \in Indices(sel2) :
                                    AddressesOf(sel1[i]) \cap AddressesOf(sel2[j]) = {}

\* the scan of a pick reads Unspent values only: a value that is Selected,
\* LocalCommitted or Confirmed is not among those it can select
C39_ScanReadsUnspentOnly ==
    \A o \in Orders(state_index[UNSPENT]) :
        \A i \in Indices(o) : find_by_state(Coll, o)[i].state = UNSPENT

====
